---- MODULE Spec2Model ----
(***************************************************************************)
(* A model of toolkit/fileformat.py: the column processors, the processor  *)
(* chain of a ColumnFormat, and FileFormat.process_data as a state machine *)
(* (structural check, column processing, repeat columns, row validators,   *)
(* rejection decision and row filtering, and the catch-all handler).       *)
(*                                                                         *)
(* Text that the code inspects character by character (cell values, regex  *)
(* sources) is a sequence of one-character strings; labels, names and      *)
(* error codes, which the code only compares, are TLA+ strings.            *)
(***************************************************************************)
EXTENDS Integers, Sequences, FiniteSets, TLC

VARIABLES
    ROW_VALIDATORS, \* the registry of row validators: a dict from names to functions
    self,    \* the FileFormat: [columns, options]
    df,      \* the raw table handed to process_data
    report,  \* the FileFormatReport created by process_data (errors is its shared list)
    df2,     \* the output table _process builds
    pc,      \* position inside process_data / _process
    ci,      \* loop position over column_formats
    vi,      \* row position of run_validators' loop
    vj,      \* validator position of run_validators' loop
    exc,     \* the exception propagating to process_data's handler
    result,  \* the report process_data returned
    unit,    \* state of the single-function specifications
    calls    \* the calls vfunc(i, row, report) run_validators has made, in order

vars == <<ROW_VALIDATORS, self, df, report, df2, pc, ci, vi, vj, exc, result, unit, calls>>

(***************************************************************************)
(* Bounds of the model.                                                    *)
(***************************************************************************)
MaxCells == 3      \* a raw table of process_data has at most this many cells
MaxRows == 3       \* a column given to a single processor has at most this many cells
\* a format handed to convert_dateformat has at most this many characters
MaxFormatLen == 4
\* process_repeat_columns is handed at most this many columns
MaxRepeatColumns == 2
\* the columns handed to the DatatypeProcessor have at most this many cells
MaxDatatypeRows == 2

(***************************************************************************)
(* Cell values.  A pandas cell is None, the np.nan singleton, pd.NA, a     *)
(* text, or (after conversion) an integer.                                 *)
(***************************************************************************)
None == [t |-> "None", s |-> <<>>, n |-> 0]
NaN == [t |-> "nan", s |-> <<>>, n |-> 0]
NA == [t |-> "NA", s |-> <<>>, n |-> 0]
Str(s) == [t |-> "str", s |-> s, n |-> 0]
IntV(n) == [t |-> "int", s |-> <<>>, n |-> n]
ListV(xs) == [t |-> "list", s |-> xs, n |-> 0]
\* a float: mantissa / 10^decimals, with no trailing zero among the decimals
FloatV(mantissa, decimals) == [t |-> "float", s |-> <<decimals>>, n |-> mantissa]
\* a datetime.datetime: fields = <<year, month, day, hour, minute, second>>
DateTimeV(fields) == [t |-> "datetime", s |-> fields, n |-> 0]
NaT == [t |-> "NaT", s |-> <<>>, n |-> 0]

NoText == "None"          \* Python None in a text-valued field
NoIndex == 0 - 1          \* Python None in FileFormatError.row_index

DigitChars == <<"0", "1", "2", "3", "4", "5", "6", "7", "8", "9">>
Digits == {DigitChars[k] : k \in 1..10}

\* Datatype enum
Datatype_INTEGER == "integer"
Datatype_FLOAT == "float"
Datatype_STRING == "string"
Datatype_DATE == "date"
Datatype_DATETIME == "datetime"

\* FileStatus enum
ACCEPTED == "ACCEPTED"
REJECTED == "REJECTED"

\* FileErrorLevel enum
ROW == "row"
FILE == "file"

(***************************************************************************)
(* pandas Series and DataFrame.                                            *)
(***************************************************************************)
Series(name, index, values) == [name |-> name, index |-> index, values |-> values]

RangeIndex(n) == [k \in 1..n |-> k - 1]

DataFrame(index, columns, data) == [index |-> index, columns |-> columns, data |-> data]

\* the position of a label among a table's columns (0 when absent)
ColumnPos(columns, label) ==
    IF \E k \in 1..Len(columns) : columns[k] = label
    THEN CHOOSE k \in 1..Len(columns) : columns[k] = label /\ \A j \in 1..(k-1) : columns[j] # label
    ELSE 0

\* df[label] handed on under the name of no column
GetColumn_unnamed(d, label) == Series(NoText, d.index, d.data[ColumnPos(d.columns, label)])

\* df[label]
GetColumn(d, label) == Series(label, d.index, d.data[ColumnPos(d.columns, label)])

\* df[name] = values
SetColumn(d, name, values) ==
    DataFrame(d.index, Append(d.columns, name), Append(d.data, values))

(***************************************************************************)
(* FileFormatError and the appends of FileFormatReport.                    *)
(***************************************************************************)
FileFormatError(level, code, message, row_index, column_name, value) ==
    [error_level |-> level, error_code |-> code, error_message |-> message,
     row_index |-> row_index, column_name |-> column_name, value |-> value]

\* add_file_error with the error put first (insert(0, e) for append(e))
add_file_error_first(errors, error_code, error_message) ==
    <<FileFormatError(FILE, error_code, error_message, NoIndex, NoText, None)>> \o errors

add_file_error(errors, error_code, error_message) ==
    Append(errors, FileFormatError(FILE, error_code, error_message, NoIndex, NoText, None))

\* add_row_error with the error put first (insert(0, e) for append(e))
add_row_error_first(errors, error_code, error_message, row_index, column_name, value) ==
    <<FileFormatError(ROW, error_code, error_message, row_index, column_name, value)>> \o errors

add_row_error(errors, error_code, error_message, row_index, column_name, value) ==
    Append(errors, FileFormatError(ROW, error_code, error_message, row_index, column_name, value))

\* what a processor hands back: the column, the report's errors list after its
\* appends, and the exception it raised ("" when it returned)
Outcome(column, errors, raised) == [column |-> column, errors |-> errors, raised |-> raised]

(***************************************************************************)
(* UniquenessProcessor.                                                    *)
(***************************************************************************)
\* duplicated(keep='last'): flags a value that occurs again further down
RECURSIVE duplicated_keep_last(_, _, _)
duplicated_keep_last(values, k, seen) ==
    IF k > Len(values) THEN <<>>
    ELSE <<\E j \in (k + 1)..Len(values) : values[j] = values[k]>>
         \o duplicated_keep_last(values, k + 1, seen)

\* Series.duplicated(): scans the values keeping the set of values seen so far
RECURSIVE duplicated(_, _, _)
duplicated(values, k, seen) ==
    IF k > Len(values) THEN <<>>
    ELSE <<values[k] \in seen>> \o duplicated(values, k + 1, seen \cup {values[k]})

RECURSIVE UniquenessLoop(_, _, _, _)
UniquenessLoop(column, dups, k, errors) ==
    IF k > Len(column.values) THEN errors
    ELSE UniquenessLoop(column, dups, k + 1,
            IF dups[k]
            THEN add_row_error(errors, "duplicate_value",
                               <<"Found duplicate value: ", column.values[k]>>,
                               column.index[k], column.name, column.values[k])
            ELSE errors)

UniquenessProcessor(column, errors) ==
    Outcome(column, UniquenessLoop(column, duplicated(column.values, 1, {}), 1, errors), "")

(***************************************************************************)
(* RegexProcessor.  A regex source is a sequence of tokens: a literal      *)
(* character, "\\d" or the repetition "+".                                 *)
(***************************************************************************)
AtomChars(tok) == IF tok = "\\d" THEN Digits ELSE {tok}

\* re.compile: the atoms of src[k..]; a "+" with nothing to repeat is an error
RECURSIVE re_compile(_, _)
re_compile(src, k) ==
    IF k > Len(src) THEN [ok |-> TRUE, atoms |-> <<>>]
    ELSE IF src[k] = "+" THEN [ok |-> FALSE, atoms |-> <<>>]
    ELSE LET plus == k < Len(src) /\ src[k + 1] = "+"
             rest == re_compile(src, IF plus THEN k + 2 ELSE k + 1)
         IN  [ok |-> rest.ok,
              atoms |-> <<[chars |-> AtomChars(src[k]), plus |-> plus]>> \o rest.atoms]

\* rx.fullmatch(s): the match has to reach the end of s
RECURSIVE rx_fullmatch(_, _, _, _)
rx_fullmatch(atoms, k, s, pos) ==
    IF k > Len(atoms) THEN pos > Len(s)
    ELSE /\ pos <= Len(s)
         /\ s[pos] \in atoms[k].chars
         /\ \/ rx_fullmatch(atoms, k + 1, s, pos + 1)
            \/ atoms[k].plus /\ rx_fullmatch(atoms, k, s, pos + 1)

\* rx.match(s): atoms[k..] match s from position pos on; the end of s need not be reached
RECURSIVE rx_match(_, _, _, _)
rx_match(atoms, k, s, pos) ==
    IF k > Len(atoms) THEN TRUE
    ELSE /\ pos <= Len(s)
         /\ s[pos] \in atoms[k].chars
         /\ \/ rx_match(atoms, k + 1, s, pos + 1)
            \/ atoms[k].plus /\ rx_match(atoms, k, s, pos + 1)

RECURSIVE RegexLoop(_, _, _, _, _)
RegexLoop(regex, atoms, column, k, errors) ==
    IF k > Len(column.values) THEN Outcome(column, errors, "")
    ELSE LET value == column.values[k] IN
         IF value = None \/ value = NaN
         THEN RegexLoop(regex, atoms, column, k + 1, errors)
         ELSE IF value.t # "str"
         THEN Outcome(column, errors, "expected string or bytes-like object")
         ELSE IF ~rx_match(atoms, 1, value.s, 1)
         THEN RegexLoop(regex, atoms, column, k + 1,
                  add_row_error(errors, "invalid_pattern",
                                <<"The value is not matching the pattern ", regex, value>>,
                                column.index[k], column.name, value))
         ELSE RegexLoop(regex, atoms, column, k + 1, errors)

\* a RegexProcessor that never compiles its pattern
RegexProcessor_uncompiled(regex, column, errors) == Outcome(column, errors, "")

RegexProcessor(regex, column, errors) ==
    LET rx == re_compile(regex, 1) IN
    IF ~rx.ok THEN Outcome(column, errors, "nothing to repeat")
    ELSE RegexLoop(regex, rx.atoms, column, 1, errors)

(***************************************************************************)
(* OptionsProcessor.                                                       *)
(***************************************************************************)
RECURSIVE OptionsLoop(_, _, _, _)
OptionsLoop(options, column, k, errors) ==
    IF k > Len(column.values) THEN errors
    ELSE LET value == column.values[k] IN
         IF value = None \/ value = Str(<<>>)
         THEN OptionsLoop(options, column, k + 1, errors)
         ELSE IF value \notin options
         THEN OptionsLoop(options, column, k + 1,
                  add_row_error(errors, "invalid_value",
                                <<"The value is not one of the allowed options: ", value>>,
                                column.index[k], column.name, value))
         ELSE OptionsLoop(options, column, k + 1, errors)

OptionsProcessor(options, column, errors) ==
    Outcome(column, OptionsLoop(options, column, 1, errors), "")

(***************************************************************************)
(* RequiredProcessor.                                                      *)
(***************************************************************************)
MissingValues == {Str(<<>>), NaN, None}

RECURSIVE RequiredLoop(_, _, _)
RequiredLoop(column, k, errors) ==
    IF k > Len(column.values) THEN errors
    ELSE RequiredLoop(column, k + 1,
            IF column.values[k] \in MissingValues
            THEN add_row_error(errors, "missing_value",
                               <<"Found missing value: ", column.values[k]>>,
                               column.index[k], column.name, column.values[k])
            ELSE errors)

RequiredProcessor(column, errors) == Outcome(column, RequiredLoop(column, 1, errors), "")

(***************************************************************************)
(* DefaultsProcessor.                                                      *)
(***************************************************************************)
\* a DefaultsProcessor that leaves the entries of missing_values as they are
DefaultsProcessor_builtin_only(default_value, missing_values, column, errors) ==
    Outcome(Series(column.name, column.index,
                   [k \in 1..Len(column.values) |->
                       IF column.values[k] \in MissingValues THEN default_value
                       ELSE column.values[k]]),
            errors, "")

DefaultsProcessor(default_value, missing_values, column, errors) ==
    LET missing == MissingValues \cup missing_values IN
    Outcome(Series(column.name, column.index,
                   [k \in 1..Len(column.values) |->
                       IF column.values[k] \in missing THEN default_value
                       ELSE column.values[k]]),
            errors, "")

(***************************************************************************)
(* DatatypeProcessor.                                                      *)
(***************************************************************************)
DigitValue(ch) == (CHOOSE k \in 1..10 : DigitChars[k] = ch) - 1

\* the number a text of digits denotes
RECURSIVE ParseDigits(_, _, _)
ParseDigits(s, k, acc) ==
    IF k > Len(s) THEN acc ELSE ParseDigits(s, k + 1, 10 * acc + DigitValue(s[k]))

\* the alternatives of the pattern of convert_dateformat, in the order re tries them
DateTokens ==
    <<<<"H", "H">>, <<":", "M", "M">>, <<"S", "S">>, <<"Y", "Y", "Y", "Y">>,
      <<"Y", "Y">>, <<"M", "M">>, <<"D", "D">>>>

\* mapping without its ":MM" entry read as minutes
mapping_month_after_colon(tok) ==
    CASE tok = <<":", "M", "M">> -> <<":", "%", "m">>
      [] tok = <<"D", "D">> -> <<"%", "d">>
      [] tok = <<"M", "M">> -> <<"%", "m">>
      [] tok = <<"Y", "Y", "Y", "Y">> -> <<"%", "Y">>
      [] tok = <<"Y", "Y">> -> <<"%", "y">>
      [] tok = <<"H", "H">> -> <<"%", "H">>
      [] tok = <<"S", "S">> -> <<"%", "S">>

mapping(tok) ==
    CASE tok = <<":", "M", "M">> -> <<":", "%", "M">>
      [] tok = <<"D", "D">> -> <<"%", "d">>
      [] tok = <<"M", "M">> -> <<"%", "m">>
      [] tok = <<"Y", "Y", "Y", "Y">> -> <<"%", "Y">>
      [] tok = <<"Y", "Y">> -> <<"%", "y">>
      [] tok = <<"H", "H">> -> <<"%", "H">>
      [] tok = <<"S", "S">> -> <<"%", "S">>

StartsAt(s, k, tok) == k + Len(tok) - 1 <= Len(s) /\ SubSeq(s, k, k + Len(tok) - 1) = tok

\* the first alternative that matches at position k of s, 0 when none does
FirstAlternative(s, k) ==
    IF \E a \in 1..Len(DateTokens) : StartsAt(s, k, DateTokens[a])
    THEN CHOOSE a \in 1..Len(DateTokens) :
            /\ StartsAt(s, k, DateTokens[a])
            /\ \A b \in 1..(a - 1) : ~StartsAt(s, k, DateTokens[b])
    ELSE 0

\* re.sub(pattern, lambda m: mapping[m.group()], s) from position k on
RECURSIVE re_sub(_, _)
re_sub(s, k) ==
    IF k > Len(s) THEN <<>>
    ELSE IF FirstAlternative(s, k) = 0 THEN <<s[k]>> \o re_sub(s, k + 1)
    ELSE mapping(DateTokens[FirstAlternative(s, k)])
         \o re_sub(s, k + Len(DateTokens[FirstAlternative(s, k)]))

convert_dateformat(dateformat) == re_sub(dateformat, 1)

\* _strptime's regex of a directive: its alternatives in the order they are tried,
\* each a sequence of character sets; <<>> for a directive this model does not know
NonZero == Digits \ {"0"}
UpTo5 == {"0", "1", "2", "3", "4", "5"}

DirectiveAlternatives(d) ==
    CASE d = "d" -> <<<<{"3"}, {"0", "1"}>>, <<{"1", "2"}, Digits>>, <<{"0"}, NonZero>>,
                      <<NonZero>>, <<{" "}, NonZero>>>>
      [] d = "m" -> <<<<{"1"}, {"0", "1", "2"}>>, <<{"0"}, NonZero>>, <<NonZero>>>>
      [] d = "H" -> <<<<{"2"}, {"0", "1", "2", "3"}>>, <<{"0", "1"}, Digits>>, <<Digits>>>>
      [] d = "M" -> <<<<UpTo5, Digits>>, <<Digits>>>>
      [] d = "S" -> <<<<{"6"}, {"0", "1"}>>, <<UpTo5, Digits>>, <<Digits>>>>
      [] d = "y" -> <<<<Digits, Digits>>>>
      [] d = "Y" -> <<<<Digits, Digits, Digits, Digits>>>>
      [] d = "%" -> <<<<{"%"}>>>>
      [] OTHER -> <<>>

\* the regex is compiled with re.IGNORECASE
CaseVariants(ch) ==
    CASE ch = "H" -> {"H", "h"} [] ch = "M" -> {"M", "m"} [] ch = "S" -> {"S", "s"}
      [] ch = "Y" -> {"Y", "y"} [] ch = "D" -> {"D", "d"} [] OTHER -> {ch}

\* TimeRE.pattern(format): one element per directive or literal character, elems
\* being those of format[1..k-1]; a blank of the format stands for \s+ (the data of
\* this model has no run of more than two blanks).  error is "" or what compiling
\* the format raises.
RECURSIVE TimeRE_pattern(_, _, _, _)
TimeRE_pattern(format, k, seen, elems) ==
    IF k > Len(format) THEN [error |-> "", elems |-> elems]
    ELSE IF format[k] = "%"
    THEN IF k = Len(format) THEN [error |-> "ValueError", elems |-> <<>>]       \* stray %
         ELSE IF DirectiveAlternatives(format[k + 1]) = <<>>
         THEN [error |-> "ValueError", elems |-> <<>>]                          \* bad directive
         ELSE IF format[k + 1] \in seen
         THEN [error |-> "redefinition of group name", elems |-> <<>>]          \* re.error
         ELSE TimeRE_pattern(format, k + 2, seen \cup ({format[k + 1]} \ {"%"}),
                             Append(elems, [dir |-> format[k + 1],
                                            alts |-> DirectiveAlternatives(format[k + 1])]))
    ELSE IF format[k] = " "
    THEN TimeRE_pattern(format, k + 1, seen,
                        IF k > 1 /\ format[k - 1] = " " THEN elems
                        ELSE Append(elems, [dir |-> "", alts |-> <<<<{" "}, {" "}>>, <<{" "}>>>>]))
    ELSE TimeRE_pattern(format, k + 1, seen,
                        Append(elems, [dir |-> "", alts |-> <<<<CaseVariants(format[k])>>>>]))

Fits(alt, data, pos) ==
    /\ pos + Len(alt) - 1 <= Len(data)
    /\ \A x \in 1..Len(alt) : data[pos + x - 1] \in alt[x]

NoMatch == [ok |-> FALSE, end |-> 0, groups |-> <<>>]

\* the match of the rest, with the text its element matched put in front
WithGroup(text, rest) ==
    IF rest.ok THEN [ok |-> TRUE, end |-> rest.end, groups |-> <<text>> \o rest.groups]
    ELSE NoMatch

FirstMatch(preferred, other) == IF preferred.ok THEN preferred ELSE other

\* format_regex.match(data): elems[k..] against data[pos..], the alternatives of an
\* element tried in order from a on; groups holds the text each element matched
RECURSIVE regex_match(_, _, _, _, _)
regex_match(elems, k, a, data, pos) ==
    IF k > Len(elems) THEN [ok |-> TRUE, end |-> pos, groups |-> <<>>]
    ELSE IF a > Len(elems[k].alts) THEN NoMatch
    ELSE IF Fits(elems[k].alts[a], data, pos)
    THEN FirstMatch(WithGroup(SubSeq(data, pos, pos + Len(elems[k].alts[a]) - 1),
                              regex_match(elems, k + 1, 1, data, pos + Len(elems[k].alts[a]))),
                    regex_match(elems, k, a + 1, data, pos))
    ELSE regex_match(elems, k, a + 1, data, pos)

\* int(found_dict[d]) of the directive d, or default when the format has no d
GroupValue(elems, groups, d, default) ==
    IF \E k \in 1..Len(elems) : elems[k].dir = d
    THEN ParseDigits(SelectSeq(groups[CHOOSE k \in 1..Len(elems) : elems[k].dir = d],
                               LAMBDA ch : ch # " "), 1, 0)
    ELSE default

IsLeap(year) == year % 4 = 0 /\ (year % 100 # 0 \/ year % 400 = 0)

DaysInMonth(year, month) ==
    IF month = 2 THEN (IF IsLeap(year) THEN 29 ELSE 28)
    ELSE IF month \in {4, 6, 9, 11} THEN 30 ELSE 31

\* the fields _strptime reads from a match (%y: 69-99 are 19xx, 00-68 are 20xx)
Fields(elems, groups) ==
    <<IF \E k \in 1..Len(elems) : elems[k].dir = "Y" THEN GroupValue(elems, groups, "Y", 1900)
      ELSE IF \E k \in 1..Len(elems) : elems[k].dir = "y"
      THEN (IF GroupValue(elems, groups, "y", 0) <= 68
            THEN 2000 + GroupValue(elems, groups, "y", 0)
            ELSE 1900 + GroupValue(elems, groups, "y", 0))
      ELSE 1900,
      GroupValue(elems, groups, "m", 1), GroupValue(elems, groups, "d", 1),
      GroupValue(elems, groups, "H", 0), GroupValue(elems, groups, "M", 0),
      GroupValue(elems, groups, "S", 0)>>

\* datetime.datetime(*fields) accepts the fields
ValidFields(f) ==
    /\ f[1] >= 1
    /\ f[3] <= DaysInMonth(f[1], f[2])
    /\ f[6] <= 59

\* the datetime of the fields, when datetime.datetime accepts them
datetime(fields) ==
    IF ValidFields(fields) THEN [raised |-> "", value |-> DateTimeV(fields)]
    ELSE [raised |-> "ValueError", value |-> None]

\* _strptime once the format is compiled and matched against the data
strptime_found(elems, found, value) ==
    IF ~found.ok \/ found.end # Len(value) + 1 THEN [raised |-> "ValueError", value |-> None]
    ELSE datetime(Fields(elems, found.groups))

strptime_compiled(pattern, value) ==
    IF pattern.error # "" THEN [raised |-> pattern.error, value |-> None]
    ELSE strptime_found(pattern.elems, regex_match(pattern.elems, 1, 1, value, 1), value)

\* datetime.datetime.strptime(value, format), format a text:
\* [raised |-> "" | "ValueError" | the text of another exception, value]
strptime(value, format) == strptime_compiled(TimeRE_pattern(format, 1, {}, <<>>), value)

\* the text is one or more digits
IsDigits(s) == Len(s) > 0 /\ \A k \in 1..Len(s) : s[k] \in Digits

\* int(value) of a text: digits after an optional sign (no blanks or underscores
\* occur at the ends of the texts of this model)
int(value) ==
    IF Len(value) > 0 /\ value[1] \in {"-", "+"} /\ IsDigits(Tail(value))
    THEN [raised |-> "",
          value |-> IntV(IF value[1] = "-" THEN 0 - ParseDigits(Tail(value), 1, 0)
                         ELSE ParseDigits(Tail(value), 1, 0))]
    ELSE IF IsDigits(value) THEN [raised |-> "", value |-> IntV(ParseDigits(value, 1, 0))]
    ELSE [raised |-> "ValueError", value |-> None]

RECURSIVE Normalise(_, _)
Normalise(mantissa, decimals) ==
    IF decimals > 0 /\ mantissa % 10 = 0 THEN Normalise(mantissa \div 10, decimals - 1)
    ELSE FloatV(mantissa, decimals)

\* float(value) of an unsigned decimal text: digits with at most one point and at
\* least one digit (no exponent, sign, inf or nan occurs in the texts of this model)
float(value) ==
    IF \E p \in 1..Len(value) :
          /\ value[p] = "."
          /\ IsDigits(SubSeq(value, 1, p - 1) \o SubSeq(value, p + 1, Len(value)))
    THEN [raised |-> "",
          value |-> Normalise(ParseDigits(SelectSeq(value, LAMBDA ch : ch # "."), 1, 0),
                              Len(value) - (CHOOSE p \in 1..Len(value) : value[p] = "."))]
    ELSE IF IsDigits(value) THEN [raised |-> "", value |-> FloatV(ParseDigits(value, 1, 0), 0)]
    ELSE [raised |-> "ValueError", value |-> None]

\* DatatypeProcessor.__init__: dateformat and self.convert_dateformat(dateformat)
InitDateformat(dateformat) ==
    IF dateformat = <<>> \/ dateformat[1] = <<>> THEN dateformat
    ELSE <<convert_dateformat(dateformat[1])>>

\* to_datetime of a non-empty text; dateformat is self.dateformat
to_datetime(dateformat, value) ==
    IF dateformat = <<>>
    THEN [raised |-> "strptime() argument 2 must be str, not None", value |-> None]
    ELSE strptime(value, dateformat[1])

\* the decimal text of n on w digits
RECURSIVE Pad(_, _)
Pad(n, w) == IF w = 0 THEN <<>> ELSE Pad(n \div 10, w - 1) \o <<DigitChars[(n % 10) + 1]>>

\* the date written day first, as DD/MM/YYYY
isoformat_day_first(fields) ==
    Pad(fields[3], 2) \o <<"/">> \o Pad(fields[2], 2) \o <<"/">> \o Pad(fields[1], 4)

\* date.isoformat()
isoformat(fields) == Pad(fields[1], 4) \o <<"-">> \o Pad(fields[2], 2) \o <<"-">> \o Pad(fields[3], 2)

date_isoformat(converted) ==
    IF converted.raised # "" THEN converted
    ELSE [raised |-> "", value |-> Str(isoformat(converted.value.s))]

to_date(dateformat, value) == date_isoformat(to_datetime(dateformat, value))

\* info['convert'](value): [raised |-> "" | "ValueError" | another exception's text, value]
Convert(datatype, dateformat, value) ==
    CASE datatype = Datatype_INTEGER ->
            IF value.t = "str" THEN int(value.s) ELSE [raised |-> "ValueError", value |-> None]
      [] datatype = Datatype_FLOAT ->
            IF value.t = "str" THEN float(value.s) ELSE [raised |-> "ValueError", value |-> None]
      [] datatype = Datatype_STRING -> [raised |-> "", value |-> value]
      [] datatype = Datatype_DATETIME -> to_datetime(dateformat, value.s)
      [] datatype = Datatype_DATE -> to_date(dateformat, value.s)

\* None as the missing value of every datatype
MissingMarker_none(datatype) == None

\* info['missing_value']
MissingMarker(datatype) ==
    CASE datatype = Datatype_INTEGER -> NA
      [] datatype \in {Datatype_FLOAT, Datatype_DATETIME} -> NaN
      [] datatype \in {Datatype_STRING, Datatype_DATE} -> None

\* info['error_message'], up to the value
ErrorText(datatype) ==
    CASE datatype = Datatype_INTEGER -> "Invalid integer: "
      [] datatype = Datatype_FLOAT -> "Invalid number: "
      [] datatype = Datatype_STRING -> "Invalid value"
      [] datatype = Datatype_DATETIME -> "Invalid timestamp: "
      [] datatype = Datatype_DATE -> "Invalid date: "

\* a < b, field by field
FieldsLess(a, b) ==
    \E k \in 1..Len(a) : a[k] < b[k] /\ \A j \in 1..(k - 1) : a[j] = b[j]

\* the datetimes a datetime64[ns] holds
InBounds(fields) ==
    /\ ~FieldsLess(fields, <<1677, 9, 21, 0, 12, 44>>)
    /\ ~FieldsLess(<<2262, 4, 11, 23, 47, 16>>, fields)

\* pd.Series(data=values, index, name, dtype=info['dtype']): a datetime64[ns] column
\* holds NaT for nan and refuses a datetime out of its bounds
TypedSeries(datatype, column, values, errors) ==
    IF datatype = Datatype_DATETIME
    THEN IF \E k \in 1..Len(values) : values[k].t = "datetime" /\ ~InBounds(values[k].s)
         THEN Outcome(column, errors, "Out of bounds nanosecond timestamp")
         ELSE Outcome(Series(column.name, column.index,
                             [k \in 1..Len(values) |->
                                 IF values[k] = NaN THEN NaT ELSE values[k]]),
                      errors, "")
    ELSE Outcome(Series(column.name, column.index, values), errors, "")

\* values = [convert(i, value) for i, value in column.iteritems()], from cell k on;
\* AfterConvert is the part of convert(i, value) after info['convert'] gave c
RECURSIVE DatatypeLoop(_, _, _, _, _, _), AfterConvert(_, _, _, _, _, _, _)
DatatypeLoop(datatype, dateformat, column, k, values, errors) ==
    IF k > Len(column.values)
    THEN TypedSeries(datatype, column, values, errors)
    ELSE IF column.values[k] = NA \/ column.values[k] \in {None, NaN, Str(<<>>)}
    THEN DatatypeLoop(datatype, dateformat, column, k + 1,
                      Append(values, MissingMarker(datatype)), errors)
    ELSE AfterConvert(datatype, dateformat, column, k, values, errors,
                      Convert(datatype, dateformat, column.values[k]))

AfterConvert(datatype, dateformat, column, k, values, errors, c) ==
    IF c.raised = ""
    THEN DatatypeLoop(datatype, dateformat, column, k + 1, Append(values, c.value), errors)
    ELSE IF c.raised = "ValueError"
    THEN DatatypeLoop(datatype, dateformat, column, k + 1,
                      Append(values, MissingMarker(datatype)),
                      add_row_error(errors, "invalid-value",
                                    <<ErrorText(datatype), column.values[k]>>,
                                    column.index[k], column.name, column.values[k]))
    ELSE Outcome(column, errors, c.raised)

DatatypeProcessor(datatype, dateformat, column, errors) ==
    DatatypeLoop(datatype, InitDateformat(dateformat), column, 1, <<>>, errors)

(***************************************************************************)
(* ColumnFormat.  An optional field is <<>> (Python None) or <<x>>.        *)
(***************************************************************************)
ColumnFormat(name, label, datatype, required, default, regex, unique, options, missing_values) ==
    [name |-> name, label |-> label, datatype |-> datatype, required |-> required,
     default |-> default, regex |-> regex, unique |-> unique, options |-> options,
     missing_values |-> missing_values, dateformat |-> <<>>]

\* d.get(key, default) of a dict, a function from its keys
Get(d, key, default) == IF key \in DOMAIN d THEN d[key] ELSE default

\* the fields of the dataclass this model reads, and those without a default
ColumnFormatFields ==
    {"name", "label", "datatype", "required", "default", "regex", "dateformat", "unique",
     "options", "missing_values", "params"}
RequiredFields == {"name", "label", "datatype"}

\* ColumnFormat(**kwargs): the dataclass constructor with its defaults
\* [raised |-> "" | "TypeError", value]
ColumnFormat_init(kwargs) ==
    IF ~(RequiredFields \subseteq DOMAIN kwargs) \/ ~(DOMAIN kwargs \subseteq ColumnFormatFields)
    THEN [raised |-> "TypeError", value |-> <<>>]
    ELSE [raised |-> "",
          value |-> [ColumnFormat(kwargs["name"], kwargs["label"], kwargs["datatype"],
                                  Get(kwargs, "required", TRUE), Get(kwargs, "default", None),
                                  Get(kwargs, "regex", <<>>), Get(kwargs, "unique", FALSE),
                                  Get(kwargs, "options", <<>>), Get(kwargs, "missing_values", <<>>))
                        EXCEPT !.dateformat = Get(kwargs, "dateformat", <<>>)]]

\* Datatype(value): the enum member of a value
DatatypeValues == {"integer", "float", "string", "date", "datetime"}

\* the dict d restricted to the keys in K
Restrict(d, K) == [k \in (DOMAIN d) \cap K |-> d[k]]

\* from_dict without d1.setdefault('required', False)
from_dict_fields_no_setdefault(d, d1) ==
    IF "datatype" \in DOMAIN d1 /\ d1["datatype"] \notin DatatypeValues
    THEN [raised |-> "ValueError", value |-> <<>>]
    ELSE IF "params" \in DOMAIN d1
    THEN [raised |-> "TypeError", value |-> <<>>]
    ELSE ColumnFormat_init(d1)

\* from_dict after d1 = {k: v for k, v in d.items() if k in fields}
from_dict_fields(d, d1) ==
    IF "datatype" \in DOMAIN d1 /\ d1["datatype"] \notin DatatypeValues
    THEN [raised |-> "ValueError", value |-> <<>>]
    ELSE IF "params" \in DOMAIN d1
    THEN [raised |-> "TypeError", value |-> <<>>]     \* params given twice to cls
    ELSE ColumnFormat_init(IF "default" \in DOMAIN d1 /\ "required" \notin DOMAIN d1
                           THEN d1 @@ [k \in {"required"} |-> FALSE]
                           ELSE d1)

from_dict(d) == from_dict_fields(d, Restrict(d, ColumnFormatFields))

\* Python truth of an optional text, and of an optional list
TruthyText(opt) == opt # <<>> /\ opt[1] # <<>>
TruthyList(opt) == opt # <<>> /\ opt[1] # {}

Processor(kind, c) ==
    [kind |-> kind, datatype |-> c.datatype, default |-> c.default, regex |-> c.regex,
     options |-> c.options, missing_values |-> c.missing_values,
     dateformat |-> c.dateformat]

\* get_processors with the Defaults processor yielded outside the else
get_processors_defaults_always(c) ==
    (IF c.unique THEN <<Processor("UniquenessProcessor", c)>> ELSE <<>>)
    \o (IF c.datatype = Datatype_STRING /\ TruthyText(c.regex)
        THEN <<Processor("RegexProcessor", c)>> ELSE <<>>)
    \o (IF c.options # <<>> THEN <<Processor("OptionsProcessor", c)>> ELSE <<>>)
    \o (IF c.required THEN <<Processor("RequiredProcessor", c)>> ELSE <<>>)
    \o <<Processor("DefaultsProcessor", c)>>
    \o <<Processor("DatatypeProcessor", c)>>

get_processors(c) ==
    (IF c.unique THEN <<Processor("UniquenessProcessor", c)>> ELSE <<>>)
    \o (IF c.datatype = Datatype_STRING /\ TruthyText(c.regex)
        THEN <<Processor("RegexProcessor", c)>> ELSE <<>>)
    \o (IF c.options # <<>> THEN <<Processor("OptionsProcessor", c)>> ELSE <<>>)
    \o (IF c.required THEN <<Processor("RequiredProcessor", c)>>
        ELSE <<Processor("DefaultsProcessor", c)>>)
    \o <<Processor("DatatypeProcessor", c)>>

\* p.process(column, report)
ProcessorProcess(p, column, errors) ==
    CASE p.kind = "UniquenessProcessor" -> UniquenessProcessor(column, errors)
      [] p.kind = "RegexProcessor" -> RegexProcessor(p.regex[1], column, errors)
      [] p.kind = "OptionsProcessor" -> OptionsProcessor(p.options[1], column, errors)
      [] p.kind = "RequiredProcessor" -> RequiredProcessor(column, errors)
      [] p.kind = "DefaultsProcessor" ->
            DefaultsProcessor(p.default,
                              IF TruthyList(p.missing_values) THEN p.missing_values[1] ELSE {},
                              column, errors)
      [] p.kind = "DatatypeProcessor" ->
            DatatypeProcessor(p.datatype, p.dateformat, column, errors)

\* the loop of ColumnFormat.process: o is what processors[k - 1] handed back
RECURSIVE ProcessChain(_, _, _)
ProcessChain(processors, k, o) ==
    IF k > Len(processors) \/ o.raised # "" THEN o
    ELSE ProcessChain(processors, k + 1, ProcessorProcess(processors[k], o.column, o.errors))

\* ColumnFormat.process(column, report)
ColumnFormat_process(c, column, errors) ==
    ProcessChain(get_processors(c), 1, Outcome(column, errors, ""))

(***************************************************************************)
(* FileFormatReport.  df is <<>> (None) or <<table>>.                      *)
(***************************************************************************)
FileFormatReport(total_rows) ==
    [status |-> ACCEPTED, filename |-> NoText, df |-> <<>>, errors |-> <<>>,
     total_rows |-> total_rows]

\* with_status returning the report as it is
with_status_unchanged(r, status) == r

\* with_status also attaching the table built so far
with_status_with_table(r, status) == [r EXCEPT !.status = status, !.df = <<df2>>]

with_status(r, status) == [r EXCEPT !.status = status]

with_df(r, d) == [r EXCEPT !.df = <<d>>]

NoReport == <<>>

(***************************************************************************)
(* FileFormat.                                                             *)
(***************************************************************************)
FileFormat(columns, options) == [columns |-> columns, options |-> options]

Range(seq) == {seq[k] : k \in 1..Len(seq)}

RECURSIVE SelectPositions(_, _, _)
\* the positions 1..n, in order, whose index label is not in the set
SelectPositions(index, k, rejected) ==
    IF k > Len(index) THEN <<>>
    ELSE (IF index[k] \in rejected THEN <<>> ELSE <<k>>) \o SelectPositions(index, k + 1, rejected)

\* check_additional_columns reporting nothing
check_additional_columns_silent(d, expected_column_names, errors) == errors

check_additional_columns(d, expected_column_names, errors) ==
    LET names == Range(expected_column_names)
        extra_columns == SelectSeq(d.columns, LAMBDA c : c \notin names)
    IN  IF extra_columns # <<>>
        THEN add_file_error(errors, "found_unexpected_columms",
                            <<"Found unexpected additional columns: ", extra_columns>>)
        ELSE errors

ensure_expected_columns(d, expected_column_names, errors) ==
    LET missing_columns == Range(expected_column_names) \ Range(d.columns)
    IN  IF missing_columns # {}
        THEN add_file_error(errors, "columns_missing",
                            <<"Requied columns missing: ", missing_columns>>)
        ELSE errors

\* the structural check with check_additional_columns skipped only for
\* ignore_additional_columns
StructuralErrors_repeat_checked(f, d, errors) ==
    LET expected_column_names == [k \in 1..Len(f.columns) |-> f.columns[k].label]
        e1 == IF ~f.options.ignore_additional_columns
              THEN check_additional_columns(d, expected_column_names, errors)
              ELSE errors
    IN  ensure_expected_columns(d, expected_column_names, e1)

\* lines 354-359: the structural check
StructuralErrors(f, d, errors) ==
    LET expected_column_names == [k \in 1..Len(f.columns) |-> f.columns[k].label]
        e1 == IF ~f.options.ignore_additional_columns /\ ~f.options.repeat_last_column
              THEN check_additional_columns(d, expected_column_names, errors)
              ELSE errors
    IN  ensure_expected_columns(d, expected_column_names, e1)

\* lines 365-370
column_formats(f) ==
    IF f.options.repeat_last_column THEN SubSeq(f.columns, 1, Len(f.columns) - 1)
    ELSE f.columns

HasRepeatFormat(f) == f.options.repeat_last_column

repeat_format(f) == f.columns[Len(f.columns)]

\* _process going on to the decision without run_validators
AfterRepeat_no_validators(f, d) == "decide"

\* where _process continues once the declared columns are done
AfterRepeat(f, d) ==
    IF f.options.validators # <<>> /\ Len(d.index) > 0 THEN "validate" ELSE "decide"

AfterColumns(f, d) == IF HasRepeatFormat(f) THEN "repeat" ELSE AfterRepeat(f, d)

\* the columns of process_repeat_columns, each through the chain in turn
\* o is what the chain handed back for columns[k - 1]
RECURSIVE RepeatChain(_, _, _, _, _)
RepeatChain(c, columns, k, done, o) ==
    IF o.raised # "" THEN [columns |-> done, errors |-> o.errors, raised |-> o.raised]
    ELSE IF k > Len(columns)
    THEN [columns |-> IF k = 1 THEN done ELSE Append(done, o.column),
          errors |-> o.errors, raised |-> ""]
    ELSE RepeatChain(c, columns, k + 1,
                     IF k = 1 THEN done ELSE Append(done, o.column),
                     ColumnFormat_process(c, columns[k], o.errors))

\* bool(x) of a cell: "raise" for pd.NA
Truth(x) ==
    CASE x.t = "None" -> "False"
      [] x.t = "NA" -> "raise"
      [] x.t = "nan" -> "True"
      [] x.t = "str" -> IF x.s = <<>> THEN "False" ELSE "True"
      [] x.t = "int" -> IF x.n = 0 THEN "False" ELSE "True"
      [] x.t = "float" -> IF x.n = 0 THEN "False" ELSE "True"
      [] OTHER -> "True"

\* notnull(row): [x for x in row if x and x is not np.nan]
notnull(row) == SelectSeq(row, LAMBDA x : Truth(x) = "True" /\ x # NaN)

\* lines 397-400 on the processed columns r
Aggregate(r) ==
    IF r.raised # "" THEN [d |-> <<>>, errors |-> r.errors, raised |-> r.raised]
    ELSE IF \E k \in 1..Len(r.columns) : \E i \in 1..Len(r.columns[k].values) :
                Truth(r.columns[k].values[i]) = "raise"
    THEN [d |-> <<>>, errors |-> r.errors, raised |-> "boolean value of NA is ambiguous"]
    ELSE [d |-> [i \in 1..(IF r.columns = <<>> THEN 0 ELSE Len(r.columns[1].values)) |->
                    ListV(notnull([k \in 1..Len(r.columns) |-> r.columns[k].values[i]]))],
          errors |-> r.errors, raised |-> ""]

process_repeat_columns(c, columns, errors) ==
    Aggregate(RepeatChain(c, columns, 1, <<>>, Outcome(<<>>, errors, "")))

\* df2[name] = pd.Series(d): the new Series has a fresh RangeIndex and is aligned
\* to df2's index by label
AlignSeries(index, d) ==
    [k \in 1..Len(index) |->
        IF index[k] >= 0 /\ index[k] < Len(d) THEN d[index[k] + 1] ELSE NaN]

\* the on_error test against a misspelt option value
RejectsFile_misspelt(f, errors) == errors # <<>> /\ f.options.on_error = "reject_file"

\* line 384
RejectsFile(f, errors) == errors # <<>> /\ f.options.on_error = "reject-file"

\* rejected_rows taking row_index as 1-based ("index starts from 1", line 465)
rejected_rows_one_based(errors) ==
    {errors[k].row_index - 1 : k \in {j \in 1..Len(errors) : errors[j].error_level = ROW}}

\* lines 387-388
rejected_rows(errors) ==
    {errors[k].row_index : k \in {j \in 1..Len(errors) : errors[j].error_level = ROW}}

\* line 389 with every row kept
FilterRows_unfiltered(d2, d, rejected) == d2

\* line 389
FilterRows(d2, d, rejected) ==
    LET keep == SelectPositions(d.index, 1, rejected) IN
    DataFrame([k \in 1..Len(keep) |-> d2.index[keep[k]]],
              d2.columns,
              [j \in 1..Len(d2.data) |-> [k \in 1..Len(keep) |-> d2.data[j][keep[k]]]])

(***************************************************************************)
(* The inputs of the model.                                                *)
(***************************************************************************)
Idle == [kind |-> "idle"]

RawCells == {NaN, Str(<<"1">>), Str(<<"X">>)}

Labels == {"A", "B", "X"}

LabelSeqs ==
    {<<>>} \cup {<<a>> : a \in Labels}
    \cup {<<a, b>> : <<a, b>> \in {p \in Labels \X Labels : p[1] # p[2]}}
    \cup {<<p[1], p[2], p[3]>> : p \in {q \in Labels \X Labels \X Labels :
                                         q[1] # q[2] /\ q[1] # q[3] /\ q[2] # q[3]}}

\* the raw tables: distinct labels, a RangeIndex, at most MaxCells cells
Tables ==
    UNION {UNION {{DataFrame(RangeIndex(n), cols, data) :
                        data \in [1..Len(cols) -> [1..n -> RawCells]]} :
                  n \in {m \in 0..MaxCells : m * Len(cols) <= MaxCells}} :
           cols \in LabelSeqs}

DigitsRegex == <<"\\d", "+">>

\* the column formats of the schemas
KeyColumn(name, label) ==
    ColumnFormat(name, label, Datatype_STRING, TRUE, None, <<DigitsRegex>>, TRUE, <<>>, <<>>)
ChoiceColumn(name, label) ==
    ColumnFormat(name, label, Datatype_STRING, FALSE, Str(<<"1">>), <<>>, FALSE,
                 <<{Str(<<"1">>)}>>, <<>>)
CountColumn(name, label) ==
    ColumnFormat(name, label, Datatype_INTEGER, TRUE, None, <<>>, FALSE, <<>>, <<>>)
OptionalCountColumn(name, label) ==
    ColumnFormat(name, label, Datatype_INTEGER, FALSE, None, <<>>, FALSE, <<>>, <<>>)
DayColumn(name, label) ==
    ColumnFormat(name, label, Datatype_DATE, FALSE, None, <<>>, TRUE, <<>>, <<>>)

\* a STRING column whose pattern re.compile refuses
BadPatternColumn(name, label) ==
    ColumnFormat(name, label, Datatype_STRING, TRUE, None, <<<<"+", "F">>>>, FALSE, <<>>, <<>>)

Schemas ==
    { <<KeyColumn("a", "A")>>,
      <<BadPatternColumn("a", "A")>>,
      <<CountColumn("a", "A"), ChoiceColumn("b", "B")>>,
      <<KeyColumn("a", "A"), OptionalCountColumn("b", "B")>>,
      <<ChoiceColumn("a", "A"), DayColumn("b", "B")>> }

Options ==
    [ignore_additional_columns : BOOLEAN,
     repeat_last_column : BOOLEAN,
     on_error : {"None", "reject-file", "reject-row"},
     validators : {<<>>, <<"check">>, <<"audit", "check">>, <<"absent">>}]

(***************************************************************************)
(* The registry of row validators.                                         *)
(***************************************************************************)
\* what one call of a registered validator function may do
ValidatorEffects == {"pass", "row_error", "file_error", "raise"}

\* a validator function: its __name__ and what its body does
Func(name, body) == [name |-> name, body |-> body]

\* a function whose body accepts every row does nothing at any call
EffectsOf(vfunc) == IF vfunc.body = "accept" THEN {"pass"} ELSE ValidatorEffects

\* row_validator(name)(func): lines 266-268
row_validator(registry, name, func) ==
    LET key == IF name = <<>> THEN func.name ELSE name[1]
    IN  [k \in DOMAIN registry \cup {key} |-> IF k = key THEN func ELSE registry[k]]

\* the registry after @row_validator() on check and on audit
Registered ==
    row_validator(row_validator(<<>>, <<>>, Func("check", "any")), <<>>, Func("audit", "accept"))

(***************************************************************************)
(* process_data as a state machine.                                        *)
(***************************************************************************)
Init ==
    /\ ROW_VALIDATORS = Registered
    /\ self \in {FileFormat(columns, options) : columns \in Schemas, options \in Options}
    /\ df \in Tables
    /\ report = NoReport
    /\ df2 = <<>>
    /\ pc = "call"
    /\ ci = 1
    /\ vi = 1
    /\ vj = 1
    /\ exc = ""
    /\ result = NoReport
    /\ calls = <<>>
    /\ unit = Idle

\* line 345
CreateReport ==
    /\ pc = "call"
    /\ report' = FileFormatReport(Len(df.index))
    /\ pc' = "structural"
    /\ UNCHANGED <<calls, ROW_VALIDATORS, self, df, df2, ci, vi, vj, exc, result, unit>>

\* lines 354-372
StructuralCheck ==
    /\ pc = "structural"
    /\ LET errors == StructuralErrors(self, df, report.errors) IN
       /\ report' = [report EXCEPT !.errors = errors]
       /\ IF errors # <<>>
          THEN /\ result' = with_status(report', REJECTED)
               /\ pc' = "done"
               /\ UNCHANGED <<df2, exc>>
          ELSE IF self.options.repeat_last_column /\ self.columns = <<>>
          THEN /\ exc' = "list index out of range"
               /\ pc' = "except"
               /\ UNCHANGED <<df2, result>>
          ELSE /\ df2' = DataFrame(df.index, <<>>, <<>>)
               /\ pc' = IF column_formats(self) = <<>> THEN AfterColumns(self, df) ELSE "columns"
               /\ UNCHANGED <<exc, result>>
    /\ UNCHANGED <<calls, ROW_VALIDATORS, self, df, ci, vi, vj, unit>>

\* lines 373-374, one iteration
ProcessColumn ==
    /\ pc = "columns"
    /\ LET c == column_formats(self)[ci]
           o == ColumnFormat_process(c, GetColumn(df, c.label), report.errors)
       IN  /\ report' = [report EXCEPT !.errors = o.errors]
           /\ IF o.raised # ""
              THEN /\ exc' = o.raised
                   /\ pc' = "except"
                   /\ UNCHANGED <<df2, ci>>
              ELSE /\ df2' = SetColumn(df2, c.name, o.column.values)
                   /\ ci' = ci + 1
                   /\ pc' = IF ci = Len(column_formats(self)) THEN AfterColumns(self, df)
                             ELSE "columns"
                   /\ exc' = exc
    /\ UNCHANGED <<calls, ROW_VALIDATORS, self, df, vi, vj, result, unit>>

\* line 377: names = df.columns[len(column_formats):]
repeat_names(f, d) == SubSeq(d.columns, Len(column_formats(f)) + 1, Len(d.columns))

\* lines 376-379
ProcessRepeatColumns ==
    /\ pc = "repeat"
    /\ LET names == repeat_names(self, df)
           columns == [k \in 1..Len(names) |-> GetColumn(df, names[k])]
           o == process_repeat_columns(repeat_format(self), columns, report.errors)
       IN  /\ report' = [report EXCEPT !.errors = o.errors]
           /\ IF o.raised # ""
              THEN /\ exc' = o.raised
                   /\ pc' = "except"
                   /\ UNCHANGED df2
              ELSE /\ df2' = SetColumn(df2, repeat_format(self).name, AlignSeries(df2.index, o.d))
                   /\ pc' = AfterRepeat(self, df)
                   /\ exc' = exc
    /\ UNCHANGED <<calls, ROW_VALIDATORS, self, df, ci, vi, vj, result, unit>>

\* the row df.iterrows() yields at position k: the cell of every column
Row(d, k) == [c \in 1..Len(d.columns) |-> d.data[c][k]]

\* lines 381-382 and 402-406, one call vfunc(i, row, report)
RunValidator ==
    /\ pc = "validate"
    /\ LET v == self.options.validators[vj]
           i == df2.index[vi]
           last == vj = Len(self.options.validators) /\ vi = Len(df2.index)
           known == v \in DOMAIN ROW_VALIDATORS
       IN  \E effect \in IF known THEN EffectsOf(ROW_VALIDATORS[v]) ELSE {"raise"} :
             IF ~known \/ effect = "raise"
             THEN /\ exc' = IF ~known THEN v ELSE "validator failed"
                  /\ pc' = "except"
                  /\ UNCHANGED <<report, vi, vj>>
             ELSE /\ report' = [report EXCEPT !.errors =
                        CASE effect = "pass" -> report.errors
                          [] effect = "row_error" ->
                                add_row_error(report.errors, "row_rule", <<"row rule", v>>,
                                              i, NoText, None)
                          [] effect = "file_error" ->
                                add_file_error(report.errors, "file_rule", <<"file rule", v>>)]
                  /\ vj' = IF vj = Len(self.options.validators) THEN 1 ELSE vj + 1
                  /\ vi' = IF vj = Len(self.options.validators) THEN vi + 1 ELSE vi
                  /\ pc' = IF last THEN "decide" ELSE "validate"
                  /\ exc' = exc
    /\ calls' = IF self.options.validators[vj] \in DOMAIN ROW_VALIDATORS
                THEN Append(calls, [validator |-> self.options.validators[vj],
                                    vfunc |-> ROW_VALIDATORS[self.options.validators[vj]],
                                    i |-> df2.index[vi], row |-> Row(df2, vi)])
                ELSE calls
    /\ UNCHANGED <<ROW_VALIDATORS, self, df, df2, ci, result, unit>>

\* lines 384-390
Decide ==
    /\ pc = "decide"
    /\ IF RejectsFile(self, report.errors)
       THEN result' = with_status(report, REJECTED)
       ELSE result' = with_df(report, FilterRows(df2, df, rejected_rows(report.errors)))
    /\ pc' = "done"
    /\ UNCHANGED <<calls, ROW_VALIDATORS, self, df, report, df2, ci, vi, vj, exc, unit>>

\* lines 348-351
HandleException ==
    /\ pc = "except"
    /\ report' = [report EXCEPT !.errors = add_file_error(report.errors, "internal_error", exc)]
    /\ result' = with_status(report', REJECTED)
    /\ pc' = "done"
    /\ UNCHANGED <<calls, ROW_VALIDATORS, self, df, df2, ci, vi, vj, exc, unit>>

Next ==
    \/ CreateReport
    \/ StructuralCheck
    \/ ProcessColumn
    \/ ProcessRepeatColumns
    \/ RunValidator
    \/ Decide
    \/ HandleException

Spec == Init /\ [][Next]_vars

(***************************************************************************)
(* One processor applied to one column, as the unit tests do.              *)
(***************************************************************************)
UnitCells ==
    {None, NaN, Str(<<>>), Str(<<"1">>), Str(<<"F">>), Str(<<"F", "1">>),
     Str(<<"F", "1", "X">>), Str(<<"X", "F", "1">>)}

UnitColumns ==
    UNION {{Series("test", RangeIndex(n), values) : values \in [1..n -> UnitCells]} :
           n \in 0..MaxRows}

UnitRegexes == {<<"F", "\\d", "+">>, <<"F">>, <<"+", "F">>}

UnitProcessors ==
    {Processor(kind, ColumnFormat("test", "test", Datatype_STRING, TRUE, Str(<<"1">>),
                                  <<>>, TRUE, <<{Str(<<"1">>), Str(<<"F">>)}>>,
                                  <<{Str(<<"F">>)}>>)) :
        kind \in {"UniquenessProcessor", "OptionsProcessor", "RequiredProcessor",
                  "DefaultsProcessor"}}
    \cup {Processor("RegexProcessor",
                    ColumnFormat("test", "test", Datatype_STRING, TRUE, None, <<regex>>,
                                 FALSE, <<>>, <<>>)) : regex \in UnitRegexes}
    \cup {Processor("DatatypeProcessor",
                    ColumnFormat("test", "test", datatype, TRUE, None, <<>>, FALSE, <<>>, <<>>)) :
            datatype \in {Datatype_INTEGER, Datatype_STRING, Datatype_DATE}}

\* the errors a report may already hold when the processor runs
EarlierErrors ==
    {<<>>, add_file_error(<<>>, "file_rule", <<"file rule", "check">>)}

InitProcessor ==
    /\ ROW_VALIDATORS = <<>>
    /\ self = FileFormat(<<>>, <<>>)
    /\ df = <<>>
    /\ report = NoReport
    /\ df2 = <<>>
    /\ pc = "unit"
    /\ ci = 1
    /\ vi = 1
    /\ vj = 1
    /\ exc = ""
    /\ result = NoReport
    /\ calls = <<>>
    /\ unit \in {[kind |-> "processor", p |-> p, column |-> column, errors |-> errors,
                   out |-> <<>>] :
                    p \in UnitProcessors, column \in UnitColumns, errors \in EarlierErrors}

\* c2 = p.process(c, report)
ApplyProcessor ==
    /\ unit.kind = "processor"
    /\ unit.out = <<>>
    /\ unit' = [unit EXCEPT !.out = <<ProcessorProcess(unit.p, unit.column, unit.errors)>>]
    /\ UNCHANGED <<calls, ROW_VALIDATORS, self, df, report, df2, pc, ci, vi, vj, exc, result>>

SpecProcessor == InitProcessor /\ [][ApplyProcessor]_vars

(***************************************************************************)
(* The DatatypeProcessor applied to one column, as its unit tests do.      *)
(***************************************************************************)
DatatypeCells ==
    {None, NaN, Str(<<>>),
     Str(<<"1">>), Str(<<"1", ".", "5">>), Str(<<"x">>),
     Str(<<"1", "0", "/", "0", "2", "/", "2", "0", "2", "0">>),
     Str(<<"3", "0", "/", "0", "2", "/", "2", "0", "2", "0">>),
     Str(<<"0", "1", "/", "0", "1", "/", "0", "0", "0", "1">>),
     Str(<<"1", "0", "/", "0", "2", "/", "2", "0", "2", "0", " ", "1", "0", ":", "3", "0">>)}

\* the column of test_integer_failure
TestColumn == Series("test", RangeIndex(4), <<Str(<<"1">>), Str(<<"2">>), Str(<<"x">>), Str(<<"4">>)>>)

DatatypeColumns ==
    {TestColumn}
    \cup UNION {{Series("test", RangeIndex(n), values) : values \in [1..n -> DatatypeCells]} :
                n \in 0..MaxDatatypeRows}

Dateformats ==
    {<<>>,
     <<<<"D", "D", "/", "M", "M", "/", "Y", "Y", "Y", "Y">>>>,
     <<<<"D", "D", "/", "M", "M", "/", "Y", "Y", "Y", "Y", " ", "H", "H", ":", "M", "M">>>>,
     <<<<"M", "M", "/", "M", "M", "/", "Y", "Y", "Y", "Y">>>>}

Datatypes ==
    {Datatype_INTEGER, Datatype_FLOAT, Datatype_STRING, Datatype_DATE, Datatype_DATETIME}

DatatypeProcessors ==
    {Processor("DatatypeProcessor",
               [ColumnFormat("test", "test", datatype, TRUE, None, <<>>, FALSE, <<>>, <<>>)
                   EXCEPT !.dateformat = dateformat]) :
        datatype \in Datatypes, dateformat \in Dateformats}

InitDatatype ==
    /\ ROW_VALIDATORS = <<>>
    /\ self = FileFormat(<<>>, <<>>)
    /\ df = <<>>
    /\ report = NoReport
    /\ df2 = <<>>
    /\ pc = "unit"
    /\ ci = 1
    /\ vi = 1
    /\ vj = 1
    /\ exc = ""
    /\ result = NoReport
    /\ calls = <<>>
    /\ unit \in {[kind |-> "processor", p |-> p, column |-> column, errors |-> errors,
                   out |-> <<>>] :
                    p \in DatatypeProcessors, column \in DatatypeColumns,
                    errors \in EarlierErrors}

SpecDatatype == InitDatatype /\ [][ApplyProcessor]_vars

(***************************************************************************)
(* convert_dateformat applied to a format, and again to what it returned.  *)
(***************************************************************************)
FormatChars == {"Y", "M", "D", "H", "S", ":", "-"}

\* the formats of test_convert_dateformat
TestFormats ==
    {<<"Y", "Y", "Y", "Y", "-", "M", "M", "-", "D", "D">>,
     <<"Y", "Y", "Y", "Y", "-", "M", "M", "-", "D", "D", " ", "H", "H", ":", "M", "M">>,
     <<"Y", "Y", "Y", "Y", "-", "M", "M", "-", "D", "D", " ", "H", "H", ":", "M", "M", ":", "S", "S">>,
     <<"D", "D", "/", "M", "M", "/", "Y", "Y", "Y", "Y">>}

FormatTexts == TestFormats \cup UNION {[1..n -> FormatChars] : n \in 0..MaxFormatLen}

InitDateformats ==
    /\ ROW_VALIDATORS = <<>>
    /\ self = FileFormat(<<>>, <<>>)
    /\ df = <<>>
    /\ report = NoReport
    /\ df2 = <<>>
    /\ pc = "unit"
    /\ ci = 1
    /\ vi = 1
    /\ vj = 1
    /\ exc = ""
    /\ result = NoReport
    /\ calls = <<>>
    /\ unit \in {[kind |-> "dateformat", dateformat |-> f, out |-> <<>>] : f \in FormatTexts}

\* p.convert_dateformat(dateformat), then p.convert_dateformat of the result
ConvertDateformat ==
    /\ unit.kind = "dateformat"
    /\ Len(unit.out) < 2
    /\ unit' = [unit EXCEPT !.out =
                   Append(@, convert_dateformat(IF @ = <<>> THEN unit.dateformat ELSE @[1]))]
    /\ UNCHANGED <<calls, ROW_VALIDATORS, self, df, report, df2, pc, ci, vi, vj, exc, result>>

SpecDateformat == InitDateformats /\ [][ConvertDateformat]_vars

(***************************************************************************)
(* process_repeat_columns applied to the repeat columns of a table.        *)
(***************************************************************************)
RepeatCells == {NaN, Str(<<"0">>), Str(<<"1">>), Str(<<"X">>)}

RepeatFormats ==
    {OptionalCountColumn("b", "B"), CountColumn("b", "B"), ChoiceColumn("b", "B"),
     ColumnFormat("b", "B", Datatype_STRING, FALSE, None, <<>>, FALSE, <<>>, <<>>)}

\* the repeat columns of a table of rows rows: the column labelled B and the
\* columns read_csv named _x0, _x1, ...
RepeatColumns ==
    UNION {{[k \in 1..n |-> Series(<<"B", "_x0", "_x1">>[k], RangeIndex(rows), cells[k])] :
              cells \in [1..n -> [1..rows -> RepeatCells]]} :
           n \in 1..MaxRepeatColumns, rows \in 1..2}

InitRepeat ==
    /\ ROW_VALIDATORS = <<>>
    /\ self = FileFormat(<<>>, <<>>)
    /\ df = <<>>
    /\ report = NoReport
    /\ df2 = <<>>
    /\ pc = "unit"
    /\ ci = 1
    /\ vi = 1
    /\ vj = 1
    /\ exc = ""
    /\ result = NoReport
    /\ calls = <<>>
    /\ unit \in {[kind |-> "repeat", c |-> c, columns |-> columns, errors |-> errors,
                   out |-> <<>>] :
                    c \in RepeatFormats, columns \in RepeatColumns, errors \in EarlierErrors}

\* column = self.process_repeat_columns(repeat_format, columns, report)
ProcessRepeat ==
    /\ unit.kind = "repeat"
    /\ unit.out = <<>>
    /\ unit' = [unit EXCEPT !.out = <<process_repeat_columns(unit.c, unit.columns, unit.errors)>>]
    /\ UNCHANGED <<calls, ROW_VALIDATORS, self, df, report, df2, pc, ci, vi, vj, exc, result>>

SpecRepeat == InitRepeat /\ [][ProcessRepeat]_vars

(***************************************************************************)
(* A ColumnFormat built from a dict by from_dict, or from keyword          *)
(* arguments by the dataclass constructor.                                 *)
(***************************************************************************)
\* a dict with or without the key, the key with one of the values
Entry(key, values) == {<<>>} \cup {[k \in {key} |-> v] : v \in values}

\* the dicts handed to from_dict: "number" is no Datatype, "note" no field
Dicts ==
    {[k \in {"name"} |-> "a"] @@ [k \in {"label"} |-> "A"] @@ dt @@ rq @@ dv @@ rx @@ un @@ nt :
        dt \in Entry("datatype", {"integer", "string", "number"}),
        rq \in Entry("required", BOOLEAN),
        dv \in Entry("default", {None, Str(<<"1">>)}),
        rx \in Entry("regex", {<<DigitsRegex>>, <<<<"+", "F">>>>}),
        un \in Entry("unique", {TRUE}),
        nt \in Entry("note", {"x"})}

InitFromDict ==
    /\ ROW_VALIDATORS = <<>>
    /\ self = FileFormat(<<>>, <<>>)
    /\ df = <<>>
    /\ report = NoReport
    /\ df2 = <<>>
    /\ pc = "unit"
    /\ ci = 1
    /\ vi = 1
    /\ vj = 1
    /\ exc = ""
    /\ result = NoReport
    /\ calls = <<>>
    /\ unit \in {[kind |-> "schema", d |-> d, by |-> "", out |-> <<>>] : d \in Dicts}

\* c = ColumnFormat.from_dict(d)
FromDict ==
    /\ unit.kind = "schema"
    /\ unit.out = <<>>
    /\ unit' = [unit EXCEPT !.by = "from_dict", !.out = <<from_dict(unit.d)>>]
    /\ UNCHANGED <<calls, ROW_VALIDATORS, self, df, report, df2, pc, ci, vi, vj, exc, result>>

\* c = ColumnFormat(**d)
Construct ==
    /\ unit.kind = "schema"
    /\ unit.out = <<>>
    /\ unit' = [unit EXCEPT !.by = "constructor", !.out = <<ColumnFormat_init(unit.d)>>]
    /\ UNCHANGED <<calls, ROW_VALIDATORS, self, df, report, df2, pc, ci, vi, vj, exc, result>>

SpecFromDict == InitFromDict /\ [][FromDict \/ Construct]_vars

\* schema construction and process_data side by side
SpecSchemaErrors == (Init \/ InitFromDict) /\ [][Next \/ FromDict \/ Construct]_vars

(***************************************************************************)
(* The processor chain of every ColumnFormat.                              *)
(***************************************************************************)
ChainFormats ==
    {ColumnFormat("a", "A", datatype, required, default, regex, unique, options, missing_values) :
        datatype \in {Datatype_INTEGER, Datatype_STRING, Datatype_DATE},
        required \in BOOLEAN,
        default \in {None, Str(<<"1">>)},
        regex \in {<<>>, <<<<>>>>, <<DigitsRegex>>},
        unique \in BOOLEAN,
        options \in {<<>>, <<{}>>, <<{Str(<<"1">>)}>>},
        missing_values \in {<<>>, <<{Str(<<"X">>)}>>}}

InitChain ==
    /\ ROW_VALIDATORS = <<>>
    /\ self = FileFormat(<<>>, <<>>)
    /\ df = <<>>
    /\ report = NoReport
    /\ df2 = <<>>
    /\ pc = "unit"
    /\ ci = 1
    /\ vi = 1
    /\ vj = 1
    /\ exc = ""
    /\ result = NoReport
    /\ calls = <<>>
    /\ unit \in {[kind |-> "chain", c |-> c, out |-> <<>>] : c \in ChainFormats}

\* processors = self.get_processors()
GetProcessors ==
    /\ unit.kind = "chain"
    /\ unit.out = <<>>
    /\ unit' = [unit EXCEPT !.out = <<get_processors(unit.c)>>]
    /\ UNCHANGED <<calls, ROW_VALIDATORS, self, df, report, df2, pc, ci, vi, vj, exc, result>>

SpecChain == InitChain /\ [][GetProcessors]_vars

(***************************************************************************)
(* Properties.                                                             *)
(***************************************************************************)
Done == pc = "done"

StructuralCodes == {"found_unexpected_columms", "columns_missing"}

CountCode(errors, code) == Cardinality({k \in 1..Len(errors) : errors[k].error_code = code})

HasRowError(errors) == \E k \in 1..Len(errors) : errors[k].error_level = ROW

HasStructuralError(errors) == \E k \in 1..Len(errors) : errors[k].error_code \in StructuralCodes

IsPrefix(a, b) == Len(a) <= Len(b) /\ SubSeq(b, 1, Len(a)) = a

\* the m-th smallest element of a set of positions
NthOf(S, m) == CHOOSE k \in S : Cardinality({j \in S : j < k}) = m - 1

ExpectedLabels == {self.columns[k].label : k \in 1..Len(self.columns)}

HasUnexpectedLabel == \E k \in 1..Len(df.columns) : df.columns[k] \notin ExpectedLabels

\* C1: when the structural check records a FILE error (found_unexpected_columms or
\* columns_missing) the returned report is REJECTED, carries no cleaned table and
\* no ROW error, and no output column was ever built, whatever on_error is.
C1_StructuralErrorsReject ==
    (Done /\ HasStructuralError(result.errors)) =>
        /\ result.status = REJECTED
        /\ result.df = <<>>
        /\ ~HasRowError(result.errors)
        /\ df2 = <<>>

C1_Witness ==
    /\ Done
    /\ CountCode(result.errors, "columns_missing") = 1
    /\ self.options.on_error = "reject-row"
    /\ Len(df.index) > 0
    /\ result.status = REJECTED

\* the rows of the input a ROW error of the report refers to
ReferencedRows(errors) ==
    {i \in Range(df.index) :
        \E k \in 1..Len(errors) : errors[k].error_level = ROW /\ errors[k].row_index = i}

\* C2: a run that passes the structural check, raises nothing and is not under
\* on_error = "reject-file" returns ACCEPTED with a cleaned table holding exactly the
\* processed rows whose index no ROW error refers to, in the original order.
C2_ExactlyFlaggedRowsDropped ==
    (Done /\ exc = "" /\ ~HasStructuralError(result.errors)
          /\ self.options.on_error # "reject-file") =>
        /\ result.status = ACCEPTED
        /\ result.df # <<>>
        /\ LET t == result.df[1]
               kept == Range(df.index) \ ReferencedRows(result.errors)
           IN  /\ Len(t.index) = Cardinality(kept)
               /\ Range(t.index) = kept
               /\ \A k \in 1..(Len(t.index) - 1) : t.index[k] < t.index[k + 1]
               /\ t.columns = df2.columns
               /\ Len(t.data) = Len(df2.data)
               /\ \A j \in 1..Len(t.data) : \A k \in 1..Len(t.index) :
                      t.data[j][k] = df2.data[j][t.index[k] + 1]

C2_Witness ==
    /\ Done
    /\ exc = ""
    /\ result.status = ACCEPTED
    /\ result.df # <<>>
    /\ Len(result.df[1].index) = 1
    /\ Len(df.index) = 2
    /\ result.df[1].index[1] = 1
    /\ Len(result.errors) >= 2

\* C3 as stated: with a row-level error in the report the status is REJECTED under
\* on_error = "reject-file" and ACCEPTED under any other on_error.
C3_Original ==
    (Done /\ HasRowError(result.errors)) =>
        IF self.options.on_error = "reject-file"
        THEN result.status = REJECTED
        ELSE result.status = ACCEPTED

\* C3 amended: with a row-level error in the report the status is REJECTED under
\* on_error = "reject-file"; under any other on_error it is ACCEPTED when the run
\* raised no internal fault (and REJECTED when it did).
C3_RejectFileOnRowError ==
    (Done /\ HasRowError(result.errors)) =>
        IF self.options.on_error = "reject-file"
        THEN result.status = REJECTED
        ELSE (exc = "" => result.status = ACCEPTED) /\ (exc # "" => result.status = REJECTED)

C3_Witness ==
    /\ Done
    /\ HasRowError(result.errors)
    /\ exc = ""
    /\ self.options.on_error = "reject-file"
    /\ result.status = REJECTED

\* a run that got past the structural check, raised nothing and ends in the
\* rejection of line 385
RejectedByOnError ==
    /\ Done
    /\ exc = ""
    /\ ~HasStructuralError(result.errors)
    /\ self.options.on_error = "reject-file"
    /\ result.errors # <<>>

\* C4 as stated: the report rejected because of on_error = "reject-file" carries the
\* cleaned table.
C4_Original == RejectedByOnError => result.status = REJECTED /\ result.df # <<>>

\* C4 amended: the report rejected because of on_error = "reject-file" is REJECTED
\* and carries no cleaned table (df is absent), like the structural-error and
\* internal-error rejections; the processed columns exist only in _process's local table.
C4_RejectFileHasNoTable ==
    RejectedByOnError =>
        /\ result.status = REJECTED
        /\ result.df = <<>>
        /\ Len(df2.columns) = Len(self.columns)

C4_Witness == RejectedByOnError /\ HasRowError(result.errors) /\ Len(df2.columns) = 2

InternalError(text) == FileFormatError(FILE, "internal_error", text, NoIndex, NoText, None)

\* C5: an exception raised inside _process never leaves process_data: the handler
\* appends exactly one FILE error internal_error with the exception's text after the
\* errors already recorded, and the returned report is REJECTED without a table.
C5_InternalFaultAbsorbed ==
    /\ [](exc # "" => pc \in {"except", "done"})
    /\ []((Done /\ exc # "") =>
            /\ result # NoReport
            /\ result.status = REJECTED
            /\ result.df = <<>>
            /\ result.errors = report.errors
            /\ result.errors[Len(result.errors)] = InternalError(exc)
            /\ CountCode(result.errors, "internal_error") = 1)
    /\ [][pc = "except" =>
            /\ pc' = "done"
            /\ report'.errors = Append(report.errors, InternalError(exc))]_vars

C5_Witness ==
    /\ Done
    /\ exc # ""
    /\ Len(result.errors) >= 2
    /\ HasRowError(result.errors)
    /\ result.status = REJECTED

UnexpectedColumns == SelectSeq(df.columns, LAMBDA c : c \notin ExpectedLabels)

UnexpectedColumnsError ==
    FileFormatError(FILE, "found_unexpected_columms",
                    <<"Found unexpected additional columns: ", UnexpectedColumns>>,
                    NoIndex, NoText, None)

\* C6 as stated: unless ignore_additional_columns and repeat_last_column are both
\* set, a label outside the expected set gives one found_unexpected_columms error
\* and REJECTED (the only error when every expected label is present).
C6_Original ==
    (Done /\ HasUnexpectedLabel
          /\ ~(self.options.ignore_additional_columns /\ self.options.repeat_last_column)) =>
        /\ result.status = REJECTED
        /\ CountCode(result.errors, "found_unexpected_columms") = 1
        /\ (ExpectedLabels \subseteq Range(df.columns)) => result.errors = <<UnexpectedColumnsError>>

\* C6 amended: when neither ignore_additional_columns nor repeat_last_column is
\* set, a label outside the expected set gives one found_unexpected_columms error,
\* first in the report, and REJECTED; it is the only error when every expected
\* label is present.
C6_UnexpectedColumnsRejected ==
    (Done /\ HasUnexpectedLabel
          /\ ~self.options.ignore_additional_columns /\ ~self.options.repeat_last_column) =>
        /\ result.status = REJECTED
        /\ CountCode(result.errors, "found_unexpected_columms") = 1
        /\ result.errors[1] = UnexpectedColumnsError
        /\ (ExpectedLabels \subseteq Range(df.columns)) => result.errors = <<UnexpectedColumnsError>>

C6_Witness ==
    /\ Done
    /\ ~self.options.ignore_additional_columns
    /\ ~self.options.repeat_last_column
    /\ ExpectedLabels \subseteq Range(df.columns)
    /\ Len(df.columns) = Len(self.columns) + 1
    /\ Len(df.index) > 0
    /\ result.errors = <<UnexpectedColumnsError>>
    /\ result.status = REJECTED

Kinds(processors) == [k \in 1..Len(processors) |-> processors[k].kind]

ChainRank(kind) ==
    CASE kind = "UniquenessProcessor" -> 1
      [] kind = "RegexProcessor" -> 2
      [] kind = "OptionsProcessor" -> 3
      [] kind = "RequiredProcessor" -> 4
      [] kind = "DefaultsProcessor" -> 4
      [] kind = "DatatypeProcessor" -> 5

\* C7: get_processors yields Uniqueness (iff unique), Pattern (iff STRING and a
\* non-empty regex), Options (iff options is not None), then exactly one of Required
\* (iff required) and Defaults (iff not required), then the Datatype processor, in
\* this order; Datatype appears once and last; each processor carries its column's
\* parameters.
C7_ChainOrder ==
    (unit.kind = "chain" /\ unit.out # <<>>) =>
        LET c == unit.c
            K == Kinds(unit.out[1])
            has(kind) == \E k \in 1..Len(K) : K[k] = kind
        IN  /\ Len(K) >= 2
            /\ K[Len(K)] = "DatatypeProcessor"
            /\ \A k \in 1..(Len(K) - 1) : ChainRank(K[k]) < ChainRank(K[k + 1])
            /\ has("UniquenessProcessor") <=> c.unique
            /\ has("RegexProcessor") <=>
                    (c.datatype = Datatype_STRING /\ c.regex # <<>> /\ c.regex[1] # <<>>)
            /\ has("OptionsProcessor") <=> c.options # <<>>
            /\ has("RequiredProcessor") <=> c.required
            /\ has("DefaultsProcessor") <=> ~c.required
            /\ ~(has("RequiredProcessor") /\ has("DefaultsProcessor"))
            /\ \A k \in 1..Len(K) : unit.out[1][k] = Processor(K[k], c)

C7_Witness ==
    /\ unit.kind = "chain"
    /\ unit.out # <<>>
    /\ Kinds(unit.out[1]) = <<"UniquenessProcessor", "RegexProcessor", "OptionsProcessor",
                              "RequiredProcessor", "DatatypeProcessor">>

\* the errors the processor of a unit run appended
UnitNewErrors ==
    SubSeq(unit.out[1].errors, Len(unit.errors) + 1, Len(unit.out[1].errors))

UnitRan(kind) == unit.kind = "processor" /\ unit.out # <<>> /\ unit.p.kind = kind

\* the positions of the cells equal to an earlier cell of the column
LaterOccurrences(values) ==
    {k \in 1..Len(values) : \E j \in 1..(k - 1) : values[j] = values[k]}

\* C9: UniquenessProcessor appends one duplicate_value ROW error for exactly the
\* cells equal to an earlier cell, at that cell's row index and in row order, never
\* for a first occurrence, and returns the column unchanged.
C9_DuplicatesAfterFirstFlagged ==
    UnitRan("UniquenessProcessor") =>
        LET col == unit.column
            D == LaterOccurrences(col.values)
            new == UnitNewErrors
        IN  /\ unit.out[1].raised = ""
            /\ unit.out[1].column = col
            /\ IsPrefix(unit.errors, unit.out[1].errors)
            /\ Len(new) = Cardinality(D)
            /\ \A m \in 1..Len(new) :
                  LET k == NthOf(D, m) IN
                  new[m] = FileFormatError(ROW, "duplicate_value",
                                           <<"Found duplicate value: ", col.values[k]>>,
                                           col.index[k], col.name, col.values[k])

C9_Witness ==
    /\ UnitRan("UniquenessProcessor")
    /\ Len(unit.column.values) = 3
    /\ unit.column.values[1] = unit.column.values[3]
    /\ unit.column.values[1] # unit.column.values[2]
    /\ Len(UnitNewErrors) = 1
    /\ UnitNewErrors[1].row_index = 2
    /\ UnitNewErrors[1].error_code = "duplicate_value"

\* a "+" always follows something it can repeat
WellFormed(regex) ==
    \A k \in 1..Len(regex) : regex[k] = "+" => (k > 1 /\ regex[k - 1] # "+")

\* the text w is, as a whole, in the language of the atoms: it splits into one
\* piece per atom, a piece of one character (or more under "+") of the atom's set
InLanguage(atoms, w) ==
    \E cut \in [0..Len(atoms) -> 0..Len(w)] :
        /\ cut[0] = 0
        /\ cut[Len(atoms)] = Len(w)
        /\ \A a \in 1..Len(atoms) :
              /\ cut[a] > cut[a - 1]
              /\ ~atoms[a].plus => cut[a] = cut[a - 1] + 1
              /\ \A x \in (cut[a - 1] + 1)..cut[a] : w[x] \in atoms[a].chars

\* some prefix of the text is in the language of the regex
MatchesAtStart(regex, w) ==
    \E n \in 0..Len(w) : InLanguage(re_compile(regex, 1).atoms, SubSeq(w, 1, n))

\* the positions of the non-null cells that do not match at their start
Unmatched(regex, values) ==
    {k \in 1..Len(values) :
        values[k] # None /\ values[k] # NaN /\ ~MatchesAtStart(regex, values[k].s)}

\* C10: RegexProcessor (with a well-formed pattern) skips None and NaN cells and
\* appends one invalid_pattern ROW error, whose message holds the pattern and the
\* value, for exactly the other cells with no match anchored at their start; text
\* after a match is not an error; the column is returned unchanged.
C10_UnmatchedAtStartFlagged ==
    (UnitRan("RegexProcessor") /\ WellFormed(unit.p.regex[1])) =>
        LET col == unit.column
            regex == unit.p.regex[1]
            U == Unmatched(regex, col.values)
            new == UnitNewErrors
        IN  /\ unit.out[1].raised = ""
            /\ unit.out[1].column = col
            /\ IsPrefix(unit.errors, unit.out[1].errors)
            /\ Len(new) = Cardinality(U)
            /\ \A m \in 1..Len(new) :
                  LET k == NthOf(U, m) IN
                  new[m] = FileFormatError(ROW, "invalid_pattern",
                                <<"The value is not matching the pattern ", regex, col.values[k]>>,
                                col.index[k], col.name, col.values[k])

C10_Witness ==
    /\ UnitRan("RegexProcessor")
    /\ unit.p.regex[1] = <<"F", "\\d", "+">>
    /\ unit.column.values = <<Str(<<"F", "1", "X">>), NaN, Str(<<"X", "F", "1">>)>>
    /\ Len(UnitNewErrors) = 1
    /\ UnitNewErrors[1].row_index = 2
    /\ UnitNewErrors[1].error_message[2] = <<"F", "\\d", "+">>

\* the stage of a run an error code belongs to
Stage(e) ==
    CASE e.error_code = "found_unexpected_columms" -> 0
      [] e.error_code = "columns_missing" -> 1
      [] e.error_code \in {"duplicate_value", "invalid_pattern", "invalid_value",
                           "missing_value", "invalid-value"} -> 2
      [] e.error_code \in {"row_rule", "file_rule"} -> 3
      [] e.error_code = "internal_error" -> 4

\* the place in the chain of the processor that emits an error code
EmitterRank(e) ==
    CASE e.error_code = "duplicate_value" -> 1
      [] e.error_code = "invalid_pattern" -> 2
      [] e.error_code = "invalid_value" -> 3
      [] e.error_code = "missing_value" -> 4
      [] e.error_code = "invalid-value" -> 5

LexLess(x, y) ==
    \/ x[1] < y[1]
    \/ x[1] = y[1] /\ x[2] < y[2]
    \/ x[1] = y[1] /\ x[2] = y[2] /\ x[3] < y[3]

DeclaredLabels == [k \in 1..Len(column_formats(self)) |-> column_formats(self)[k].label]

\* column position, processor position, row position of a column error
DeclaredKey(e) == <<ColumnPos(DeclaredLabels, e.column_name), EmitterRank(e), e.row_index>>
RepeatKey(e) == <<ColumnPos(df.columns, e.column_name), EmitterRank(e), e.row_index>>

\* the errors of the declared columns are errors[1..m] of stage 2, those of the
\* repeat columns the rest of stage 2; each part is in (column, processor, row) order
DetectionOrder(errors) ==
    /\ \A k \in 1..(Len(errors) - 1) :
          /\ Stage(errors[k]) <= Stage(errors[k + 1])
          /\ Stage(errors[k]) \in {0, 1, 4} => Stage(errors[k]) < Stage(errors[k + 1])
    /\ \E m \in 0..Len(errors) :
          /\ \A k \in 1..Len(errors) :
                Stage(errors[k]) = 2 =>
                    /\ errors[k].error_level = ROW
                    /\ IF k <= m
                       THEN DeclaredKey(errors[k])[1] > 0
                       ELSE /\ self.options.repeat_last_column
                            /\ RepeatKey(errors[k])[1] > Len(DeclaredLabels)
          /\ \A k \in 1..(Len(errors) - 1) :
                (Stage(errors[k]) = 2 /\ Stage(errors[k + 1]) = 2 /\ k + 1 <= m) =>
                    LexLess(DeclaredKey(errors[k]), DeclaredKey(errors[k + 1]))
          /\ \A k \in 1..(Len(errors) - 1) :
                (Stage(errors[k]) = 2 /\ Stage(errors[k + 1]) = 2 /\ k > m) =>
                    LexLess(RepeatKey(errors[k]), RepeatKey(errors[k + 1]))

\* C8: the errors of a report are in detection order (structural errors, unexpected
\* columns before missing columns; then the declared columns in declared order, per
\* column the processors in chain order, per processor ascending rows; then the
\* repeat columns; then the validators' errors), and every step only appends to them.
C8_DetectionOrder ==
    /\ [](Done => (result.errors = report.errors /\ DetectionOrder(result.errors)))
    /\ [][report # NoReport => (report' # NoReport /\ IsPrefix(report.errors, report'.errors))]_vars

C8_Witness ==
    /\ Done
    /\ Len(df.index) = 3
    /\ Len(result.errors) = 5
    /\ result.errors[1].error_code = "duplicate_value"
    /\ result.errors[1].row_index = 1
    /\ result.errors[2].error_code = "invalid_pattern"
    /\ result.errors[2].row_index = 0
    /\ result.errors[3].error_code = "invalid_pattern"
    /\ result.errors[3].row_index = 1
    /\ result.errors[4].error_code = "missing_value"
    /\ result.errors[4].row_index = 2
    /\ result.errors[5].error_code = "row_rule"

\* the positions of the non-empty cells that are no member of the options: the empty
\* cells are the empty string, None and the NaN read_csv puts for an empty cell
NonMembers(options, values) ==
    {k \in 1..Len(values) : values[k] \notin {None, NaN, Str(<<>>)} /\ values[k] \notin options}

\* C11: OptionsProcessor appends no error for an empty or missing cell (the empty
\* string, None, NaN) and one invalid_value ROW error, at its row index, for every
\* other cell that is no member of the options; the column is returned unchanged.
C11_Original ==
    UnitRan("OptionsProcessor") =>
        LET col == unit.column
            options == unit.p.options[1]
            N == NonMembers(options, col.values)
            new == UnitNewErrors
        IN  /\ unit.out[1].raised = ""
            /\ unit.out[1].column = col
            /\ Len(new) = Cardinality(N)
            /\ \A m \in 1..Len(new) :
                  LET k == NthOf(N, m) IN
                  new[m] = FileFormatError(ROW, "invalid_value",
                                <<"The value is not one of the allowed options: ", col.values[k]>>,
                                col.index[k], col.name, col.values[k])

IsMissingCell(v) == v \in {NA, None, NaN, Str(<<>>)}

\* the missing marker as the returned column holds it (NaT in a datetime64 column)
OutputMarker(datatype) ==
    CASE datatype = Datatype_INTEGER -> NA
      [] datatype = Datatype_FLOAT -> NaN
      [] datatype = Datatype_DATETIME -> NaT
      [] datatype \in {Datatype_STRING, Datatype_DATE} -> None

Converted(p, v) == Convert(p.datatype, InitDateformat(p.dateformat), v)

\* the positions of the cells that are neither missing nor convertible
Inconvertible(p, values) ==
    {k \in 1..Len(values) : ~IsMissingCell(values[k]) /\ Converted(p, values[k]).raised # ""}

\* what C12 says of a column the processor has returned
CellwiseConversion(p, col, out, new) ==
    /\ out.column.index = col.index
    /\ Len(out.column.values) = Len(col.values)
    /\ \A k \in 1..Len(col.values) :
          out.column.values[k] =
              IF IsMissingCell(col.values[k]) \/ k \in Inconvertible(p, col.values)
              THEN OutputMarker(p.datatype)
              ELSE Converted(p, col.values[k]).value
    /\ Len(new) = Cardinality(Inconvertible(p, col.values))
    /\ \A m \in 1..Len(new) :
          LET k == NthOf(Inconvertible(p, col.values), m) IN
          new[m] = FileFormatError(ROW, "invalid-value",
                                   <<ErrorText(p.datatype), col.values[k]>>,
                                   col.index[k], col.name, col.values[k])
    /\ (p.datatype = Datatype_INTEGER /\ col = TestColumn) =>
          /\ out.column.values = <<IntV(1), IntV(2), NA, IntV(4)>>
          /\ new = <<FileFormatError(ROW, "invalid-value", <<"Invalid integer: ", Str(<<"x">>)>>,
                                     2, "test", Str(<<"x">>))>>

UnusableDateformat(p) ==
    /\ p.datatype \in {Datatype_DATE, Datatype_DATETIME}
    /\ \/ p.dateformat = <<>>
       \/ /\ p.dateformat[1] # <<>>
          /\ TimeRE_pattern(convert_dateformat(p.dateformat[1]), 1, {}, <<>>).error \notin {"", "ValueError"}

\* the inputs on which process raises instead of returning a column
ProcessRaises(p, col) ==
    \/ UnusableDateformat(p) /\ \E k \in 1..Len(col.values) : ~IsMissingCell(col.values[k])
    \/ /\ p.datatype = Datatype_DATETIME
       /\ ~UnusableDateformat(p)
       /\ \E k \in 1..Len(col.values) :
             /\ ~IsMissingCell(col.values[k])
             /\ Converted(p, col.values[k]).raised = ""
             /\ ~InBounds(Converted(p, col.values[k]).value.s)

Untoken(d) ==
    CASE d = "Y" -> <<"Y", "Y", "Y", "Y">> [] d = "y" -> <<"Y", "Y">>
      [] d = "m" -> <<"M", "M">> [] d = "M" -> <<"M", "M">> [] d = "d" -> <<"D", "D">>
      [] d = "H" -> <<"H", "H">> [] d = "S" -> <<"S", "S">>
      [] OTHER -> <<"%", d>>

\* the text with every directive %x written back as its token
RECURSIVE Decode(_, _)
Decode(out, k) ==
    IF k > Len(out) THEN <<>>
    ELSE IF out[k] = "%" /\ k < Len(out) THEN Untoken(out[k + 1]) \o Decode(out, k + 2)
    ELSE <<out[k]>> \o Decode(out, k + 1)

\* position k of the output holds a character kept from the input
Kept(out, k) == out[k] # "%" /\ (k = 1 \/ out[k - 1] # "%")

\* a token is left among the kept characters of the output
TokenLeft(out) ==
    \E k \in 1..Len(out), a \in 1..Len(DateTokens) :
        /\ StartsAt(out, k, DateTokens[a])
        /\ \A j \in k..(k + Len(DateTokens[a]) - 1) : Kept(out, j)

Occurs(out, text) == \E k \in 1..Len(out) : StartsAt(out, k, text)

\* out is the substitution of f: the tokens are replaced and nothing else changes,
\* no token is left, YYYY counts as one token, and MM is minutes exactly after a colon
IsSubstitution(f, out) ==
    /\ Decode(out, 1) = f
    /\ ~TokenLeft(out)
    /\ ~Occurs(out, <<"%", "y", "%", "y">>)
    /\ ~Occurs(out, <<":", "%", "m">>)
    /\ \A k \in 1..Len(out) : StartsAt(out, k, <<"%", "M">>) => (k > 1 /\ out[k - 1] = ":")
    /\ (f = <<"Y", "Y", "Y", "Y", "-", "M", "M", "-", "D", "D", " ", "H", "H", ":", "M", "M", ":", "S", "S">>)
          => out = <<"%", "Y", "-", "%", "m", "-", "%", "d", " ", "%", "H", ":", "%", "M", ":", "%", "S">>
    /\ (f = <<"D", "D", "/", "M", "M", "/", "Y", "Y", "Y", "Y">>)
          => out = <<"%", "d", "/", "%", "m", "/", "%", "Y">>

\* C13 as stated: convert_dateformat is the left-to-right substitution of the
\* tokens, and applying it to its own output changes nothing.
C13_Original ==
    unit.kind = "dateformat" =>
        /\ Len(unit.out) >= 1 => IsSubstitution(unit.dateformat, unit.out[1])
        /\ Len(unit.out) = 2 => unit.out[2] = unit.out[1]

\* the output spells a token somewhere, directive letters included
TokenAcross(out) == \E k \in 1..Len(out), a \in 1..Len(DateTokens) : StartsAt(out, k, DateTokens[a])

\* C13 amended: convert_dateformat is the left-to-right substitution of the tokens;
\* applying it to its own output changes nothing exactly when the output spells no
\* token, which fails when a directive letter is followed by a leftover letter
\* ("HHH" gives "%HH", and that gives "%%H").
C13_SubstitutionOnce ==
    unit.kind = "dateformat" =>
        /\ Len(unit.out) >= 1 => IsSubstitution(unit.dateformat, unit.out[1])
        /\ Len(unit.out) = 2 => ((unit.out[2] = unit.out[1]) = ~TokenAcross(unit.out[1]))
        /\ (Len(unit.out) = 2 /\ unit.dateformat \in TestFormats) => unit.out[2] = unit.out[1]
        /\ (Len(unit.out) = 2 /\ unit.dateformat = <<"H", "H", "H">>) =>
              unit.out = <<<<"%", "H", "H">>, <<"%", "%", "H">>>>

C13_Witness ==
    /\ unit.kind = "dateformat"
    /\ unit.dateformat = <<"Y", "Y", "Y", "Y", "-", "M", "M", "-", "D", "D", " ", "H", "H", ":", "M", "M", ":", "S", "S">>
    /\ Len(unit.out) = 2
    /\ unit.out[1] = <<"%", "Y", "-", "%", "m", "-", "%", "d", " ", "%", "H", ":", "%", "M", ":", "%", "S">>
    /\ unit.out[2] = unit.out[1]

\* the converted values of row i that are not missing, in repeat-column order
NonMissingOfRow(c, columns, i) ==
    SelectSeq([k \in 1..Len(columns) |->
                  ColumnFormat_process(c, columns[k], <<>>).column.values[i]],
              LAMBDA v : v \notin {None, NaN, NA, NaT})

\* C14: the list process_repeat_columns builds for a row holds exactly the
\* non-missing converted values of the row across the repeat columns, in order: no
\* value, a zero included, is left out and no missing value is put in.
C14_Original ==
    (unit.kind = "repeat" /\ unit.out # <<>>) =>
        /\ unit.out[1].raised = ""
        /\ Len(unit.out[1].d) = Len(unit.columns[1].values)
        /\ \A i \in 1..Len(unit.out[1].d) :
              unit.out[1].d[i] = ListV(NonMissingOfRow(unit.c, unit.columns, i))

\* the calls run_validators makes when nothing raises: for every row of the table,
\* in table order, every listed validator in listed order
ExpectedCalls ==
    LET validators == self.options.validators
        V == Len(validators)
    IN  [m \in 1..(Len(df.index) * V) |->
            [validator |-> validators[((m - 1) % V) + 1],
             i |-> df.index[((m - 1) \div V) + 1]]]

CallKeys == [m \in 1..Len(calls) |-> [validator |-> calls[m].validator, i |-> calls[m].i]]

PassedStructuralCheck == Done /\ ~HasStructuralError(result.errors)

\* C15 as stated: with validators set and the structural check passed, every named
\* validator is called once for every row, rows in table order and validators in
\* listed order, after the column processors and before the decision.
C15_Original ==
    (PassedStructuralCheck /\ self.options.validators # <<>>) => CallKeys = ExpectedCalls

\* C15 amended: no validator is called before the column processors have finished
\* or after the decision; in a run that passed the structural check and raised no
\* exception the calls are exactly one (row index, row, report) per row and listed
\* validator, rows in table order (rows with ROW errors included) and validators in
\* listed order, and a row a validator flagged is dropped; in a run that raised
\* they are a prefix of those calls.
C15_ValidatorsCalledInOrder ==
    /\ pc \in {"call", "structural", "columns", "repeat"} => calls = <<>>
    /\ calls # <<>> => (Len(df2.columns) = Len(self.columns) /\ self.options.validators # <<>>)
    /\ pc = "validate" => result = NoReport
    /\ IsPrefix(CallKeys, ExpectedCalls)
    /\ \A m \in 1..Len(calls) :
          \E k \in 1..Len(df2.index) : df2.index[k] = calls[m].i /\ calls[m].row = Row(df2, k)
    /\ (PassedStructuralCheck /\ exc = "" /\ self.options.validators # <<>>) =>
          /\ CallKeys = ExpectedCalls
          /\ result.df # <<>> =>
                \A k \in 1..Len(result.errors) :
                    result.errors[k].error_code = "row_rule" =>
                        \A j \in 1..Len(result.df[1].index) :
                            result.df[1].index[j] # result.errors[k].row_index

C15_Witness ==
    /\ Done
    /\ exc = ""
    /\ self.options.validators = <<"audit", "check">>
    /\ Len(df.index) = 2
    /\ Len(calls) = 4
    /\ calls[1].validator = "audit"
    /\ calls[2].validator = "check"
    /\ calls[2].i = 0
    /\ calls[3].i = 1
    /\ CountCode(result.errors, "row_rule") = 1
    /\ CountCode(result.errors, "missing_value") = 1
    /\ result.errors[1].row_index = result.errors[2].row_index
    /\ result.df # <<>>
    /\ Len(result.df[1].index) = 1

\* a ColumnFormat has been built from unit.d by the named way
Built(by) == unit.kind = "schema" /\ unit.out # <<>> /\ unit.by = by /\ unit.out[1].raised = ""

\* what C16 says of the ColumnFormat built from unit.d
RequiredRule ==
    /\ ("default" \in DOMAIN unit.d /\ "required" \notin DOMAIN unit.d) =>
          ~unit.out[1].value.required
    /\ ("required" \in DOMAIN unit.d) => unit.out[1].value.required = unit.d["required"]
    /\ ("default" \notin DOMAIN unit.d /\ "required" \notin DOMAIN unit.d) =>
          unit.out[1].value.required

\* C16 as stated: for every ColumnFormat, a default without an explicit required
\* makes required false, an explicit required is kept, and neither makes it true.
C16_Original == (Built("from_dict") \/ Built("constructor")) => RequiredRule

\* C16 amended: the rule holds for every ColumnFormat built by from_dict; the
\* dataclass constructor leaves required at its default TRUE whatever default is.
C16_RequiredFromDict ==
    /\ Built("from_dict") => RequiredRule
    /\ Built("constructor") =>
          unit.out[1].value.required = Get(unit.d, "required", TRUE)

C16_Witness ==
    /\ Built("from_dict")
    /\ "required" \notin DOMAIN unit.d
    /\ "default" \in DOMAIN unit.d
    /\ unit.d["default"] = Str(<<"1">>)
    /\ ~unit.out[1].value.required
    /\ unit.out[1].value.default = Str(<<"1">>)

\* from_dict has been applied to unit.d
FromDictDone == unit.kind = "schema" /\ unit.out # <<>> /\ unit.by = "from_dict"

UnknownDatatype == "datatype" \in DOMAIN unit.d /\ unit.d["datatype"] \notin DatatypeValues

MalformedRegex == "regex" \in DOMAIN unit.d /\ ~re_compile(unit.d["regex"][1], 1).ok

\* the report holds an internal_error with the given text
ReportsInternalError(text) ==
    \E k \in 1..Len(result.errors) : result.errors[k] = InternalError(text)

\* C17 as stated: an unknown datatype name, a malformed pattern and an unregistered
\* validator name are each raised to the caller when the schema is built, and none
\* becomes an internal_error of a process_data run or is silently ignored.
C17_Original ==
    /\ (FromDictDone /\ (UnknownDatatype \/ MalformedRegex)) => unit.out[1].raised # ""
    /\ Done => (~ReportsInternalError("nothing to repeat") /\ ~ReportsInternalError("absent"))

\* the run of process_data ended in the handler with this exception
AbsorbedAs(text) ==
    /\ exc = text
    /\ result.status = REJECTED
    /\ result.df = <<>>
    /\ result.errors[Len(result.errors)] = InternalError(text)

\* C17 amended: only the unknown datatype is raised when the schema is built
\* (ValueError from from_dict).  A malformed pattern is accepted by from_dict and is
\* compiled when its column is processed, an unregistered validator name is looked
\* up at the first row: process_data absorbs both as internal_error and REJECTED,
\* and the unregistered name goes unnoticed when the table has no row.
C17_OnlyDatatypeRaisedAtConstruction ==
    /\ (FromDictDone /\ UnknownDatatype) => unit.out[1].raised = "ValueError"
    /\ (FromDictDone /\ ~UnknownDatatype /\ "datatype" \in DOMAIN unit.d) =>
          /\ unit.out[1].raised = ""
          /\ unit.out[1].value.regex = Get(unit.d, "regex", <<>>)
    /\ (PassedStructuralCheck /\ self.columns[1] = BadPatternColumn("a", "A")) =>
          AbsorbedAs("nothing to repeat")
    /\ (PassedStructuralCheck /\ self.options.validators = <<"absent">>) =>
          /\ calls = <<>>
          /\ exc # "" => AbsorbedAs(exc)
          /\ Len(df.index) > 0 => exc # ""
          /\ (Len(df.index) = 0 /\ exc = "") => result.status = ACCEPTED

C17_Witness ==
    /\ Done
    /\ self.columns = <<KeyColumn("a", "A")>>
    /\ self.options.validators = <<"absent">>
    /\ Len(df.index) = 2
    /\ AbsorbedAs("absent")
    /\ Len(result.errors) = 2
    /\ result.errors[1].error_code = "missing_value"

(***************************************************************************)
(* FileFormatReport objects.  A heap holds the report objects and the      *)
(* list objects: the errors field of a report object is the identity of a  *)
(* list, as a Python attribute is a reference.  made[j] records how object *)
(* j came to be: the method and the object it was called on (0 for the     *)
(* constructor), that object as it was, and the length of its errors then. *)
(***************************************************************************)
MaxReports == 3        \* at most this many report objects are created
MaxReportErrors == 2   \* at most this many errors are added in all

Heap(objects, lists, made) == [objects |-> objects, lists |-> lists, made |-> made]

\* report.errors, read through object i
ErrorsOf(h, i) == h.lists[h.objects[i].errors]

\* FileFormatReport(total_rows=n) with one list for the errors of every report
\* (errors: List = [] evaluated once)
NewReportObject_shared_list(h, total_rows) ==
    Heap(Append(h.objects, [FileFormatReport(total_rows) EXCEPT !.errors = 1]),
         IF h.lists = <<>> THEN <<<<>>>> ELSE h.lists,
         Append(h.made, [by |-> "FileFormatReport", of |-> 0, was |-> <<>>, at |-> 0]))

\* FileFormatReport(total_rows=n): field(default_factory=list) makes a new list
NewReportObject(h, total_rows) ==
    Heap(Append(h.objects, [FileFormatReport(total_rows) EXCEPT !.errors = Len(h.lists) + 1]),
         Append(h.lists, <<>>),
         Append(h.made, [by |-> "FileFormatReport", of |-> 0, was |-> <<>>, at |-> 0]))

\* dataclass_replace copying the errors list for the new object
dataclass_replace_deep(h, i, by, r) ==
    Heap(Append(h.objects, [r EXCEPT !.errors = Len(h.lists) + 1]),
         Append(h.lists, ErrorsOf(h, i)),
         Append(h.made, [by |-> by, of |-> i, was |-> <<h.objects[i]>>,
                         at |-> Len(ErrorsOf(h, i))]))

\* dataclass_replace(self, **changes): a new object built from the fields of
\* object i with the changes applied (r); every field, the reference to the
\* errors list included, is handed to the constructor as it is
dataclass_replace(h, i, by, r) ==
    Heap(Append(h.objects, r),
         h.lists,
         Append(h.made, [by |-> by, of |-> i, was |-> <<h.objects[i]>>,
                         at |-> Len(ErrorsOf(h, i))]))

with_filename(r, filename) == [r EXCEPT !.filename = filename]

RECURSIVE TotalErrors(_, _)
TotalErrors(lists, k) ==
    IF k > Len(lists) THEN 0 ELSE Len(lists[k]) + TotalErrors(lists, k + 1)

ReportTables == {DataFrame(RangeIndex(0), <<"A">>, <<<<>>>>)}
ReportFilenames == {"a.csv"}

InitReport ==
    /\ ROW_VALIDATORS = <<>>
    /\ self = FileFormat(<<>>, <<>>)
    /\ df = <<>>
    /\ report = NoReport
    /\ df2 = <<>>
    /\ pc = "unit"
    /\ ci = 1
    /\ vi = 1
    /\ vj = 1
    /\ exc = ""
    /\ result = NoReport
    /\ calls = <<>>
    /\ unit \in {[kind |-> "report", heap |-> NewReportObject(Heap(<<>>, <<>>, <<>>), n)] :
                    n \in {0, 2}}

ReportFrame == UNCHANGED <<calls, ROW_VALIDATORS, self, df, report, df2, pc, ci, vi, vj, exc, result>>

CanAllocate == unit.kind = "report" /\ Len(unit.heap.objects) < MaxReports

\* FileFormatReport(total_rows=n)
NewReport ==
    /\ CanAllocate
    /\ unit' = [unit EXCEPT !.heap = NewReportObject(@, 1)]
    /\ ReportFrame

\* r.with_status(status)
WithStatus ==
    /\ CanAllocate
    /\ \E i \in 1..Len(unit.heap.objects), status \in {ACCEPTED, REJECTED} :
          unit' = [unit EXCEPT !.heap = dataclass_replace(@, i, "with_status",
                                            with_status(@.objects[i], status))]
    /\ ReportFrame

\* r.with_df(df)
WithDf ==
    /\ CanAllocate
    /\ \E i \in 1..Len(unit.heap.objects), d \in ReportTables :
          unit' = [unit EXCEPT !.heap = dataclass_replace(@, i, "with_df",
                                            with_df(@.objects[i], d))]
    /\ ReportFrame

\* r.with_filename(filename)
WithFilename ==
    /\ CanAllocate
    /\ \E i \in 1..Len(unit.heap.objects), filename \in ReportFilenames :
          unit' = [unit EXCEPT !.heap = dataclass_replace(@, i, "with_filename",
                                            with_filename(@.objects[i], filename))]
    /\ ReportFrame

\* r.add_file_error(code, message)
AddFileError ==
    /\ unit.kind = "report"
    /\ \E i \in 1..Len(unit.heap.objects) :
          /\ TotalErrors(unit.heap.lists, 1) < MaxReportErrors
          /\ unit' = [unit EXCEPT !.heap =
                         [@ EXCEPT !.lists[@.objects[i].errors] =
                             add_file_error(ErrorsOf(unit.heap, i), "file_rule", <<"m">>)]]
    /\ ReportFrame

\* r.add_row_error(code, message, row_index, column_name, value)
AddRowError ==
    /\ unit.kind = "report"
    /\ \E i \in 1..Len(unit.heap.objects) :
          /\ TotalErrors(unit.heap.lists, 1) < MaxReportErrors
          /\ unit' = [unit EXCEPT !.heap =
                         [@ EXCEPT !.lists[@.objects[i].errors] =
                             add_row_error(ErrorsOf(unit.heap, i), "row_rule", <<"m">>,
                                           0, "a", Str(<<"x">>))]]
    /\ ReportFrame

SpecReport ==
    InitReport /\ [][NewReport \/ WithStatus \/ WithDf \/ WithFilename
                       \/ AddFileError \/ AddRowError]_vars

\* C18: a report made by with_status, with_df or with_filename is a new
\* object; the report the method was called on is as it was before the call;
\* the new report differs from it in the one field the method sets, so
\* total_rows is carried over; both refer to the same errors list, so they
\* show the same errors whichever of them an error was appended through.
CopiesOf(h) == {j \in 1..Len(h.objects) : h.made[j].of # 0}

ChangedField(by) ==
    IF by = "with_status" THEN "status" ELSE IF by = "with_df" THEN "df" ELSE "filename"

C18_CopiesShareErrors ==
    unit.kind = "report" =>
        \A j \in CopiesOf(unit.heap) :
            LET h == unit.heap
                i == h.made[j].of
            IN  /\ i # j
                /\ h.objects[i] = h.made[j].was[1]
                /\ \A f \in DOMAIN h.objects[j] \ {ChangedField(h.made[j].by)} :
                       h.objects[j][f] = h.objects[i][f]
                /\ h.objects[j].total_rows = h.objects[i].total_rows
                /\ h.objects[j].errors = h.objects[i].errors
                /\ ErrorsOf(h, j) = ErrorsOf(h, i)

\* an error was appended after with_filename made a copy of a report, and a
\* report made by the constructor, sharing no list with them, has none
C18_Witness ==
    /\ unit.kind = "report"
    /\ \E j \in CopiesOf(unit.heap) :
          /\ Len(ErrorsOf(unit.heap, j)) > unit.heap.made[j].at
          /\ unit.heap.made[j].by = "with_filename"
          /\ unit.heap.objects[j].filename # unit.heap.objects[unit.heap.made[j].of].filename
    /\ \E k \in 1..Len(unit.heap.objects) :
          unit.heap.made[k].of = 0 /\ ErrorsOf(unit.heap, k) = <<>>

(***************************************************************************)
(* process_file.  A file is the list csv.reader yields: one list of cell   *)
(* texts per line (the empty list for a blank line).  Cell texts are ""    *)
(* or one character.  Files whose header repeats a label are left out.     *)
(***************************************************************************)
MaxFileCells == 4      \* a file has at most this many cells, a blank line counting as one

FileTexts == {"", "1", "A"}

FileRows(n) == UNION {[1..k -> FileTexts] : k \in 0..n}

RowCost(row) == IF Len(row) = 0 THEN 1 ELSE Len(row)

RECURSIVE Files(_)
Files(n) ==
    {<<>>} \cup UNION {{<<row>> \o f : f \in Files(n - RowCost(row))} : row \in FileRows(n)}

\* data[skiprows:], skiprows being None or a number
Skip(data, skiprows) ==
    IF skiprows = <<>> THEN data ELSE SubSeq(data, skiprows[1] + 1, Len(data))

\* max(len(row) for row in data), data not empty
RECURSIVE MaxRowLen(_, _, _)
MaxRowLen(data, k, m) ==
    IF k > Len(data) THEN m
    ELSE MaxRowLen(data, k + 1, IF Len(data[k]) > m THEN Len(data[k]) ELSE m)

\* FileFormat.resize(n, row)
resize(n, row) == row \o [k \in 1..(n - Len(row)) |-> ""]

\* f'_x{i}'
PlaceholderNames == <<"_x0", "_x1", "_x2", "_x3", "_x4", "_x5", "_x6", "_x7">>

\* a cell of the table: df.replace('', np.nan) on str cells
CellOf(text) == IF text = "" THEN NaN ELSE Str(<<text>>)

\* FileFormat.read_csv(filename, skiprows): the table, or the exception raised
read_csv(lines, skiprows) ==
    LET data == Skip(lines, skiprows) IN
    IF data = <<>>
    THEN [raised |-> "max() arg is an empty sequence", df |-> <<>>]
    ELSE LET ncols == MaxRowLen(data, 1, 0)
             d == Tail(data)
             columns == data[1] \o [i \in 1..(ncols - Len(data[1])) |-> PlaceholderNames[i]]
             rows == [k \in 1..Len(d) |-> resize(ncols, d[k])]
         IN  [raised |-> "",
              df |-> <<DataFrame(RangeIndex(Len(d)), columns,
                                 [c \in 1..ncols |-> [r \in 1..Len(d) |-> CellOf(rows[r][c])]])>>]

Distinct(xs) == \A a, b \in 1..Len(xs) : a # b => xs[a] # xs[b]

FileOptions ==
    [ignore_additional_columns : BOOLEAN,
     repeat_last_column : BOOLEAN,
     on_error : {"None"},
     validators : {<<>>, <<"check">>},
     skiprows : {<<>>, <<1>>}]

InitFile ==
    /\ ROW_VALIDATORS = Registered
    /\ self \in {FileFormat(<<KeyColumn("a", "A")>>, options) : options \in FileOptions}
    /\ df = <<>>
    /\ report = NoReport
    /\ df2 = <<>>
    /\ pc = "process_file"
    /\ ci = 1
    /\ vi = 1
    /\ vj = 1
    /\ exc = ""
    /\ result = NoReport
    /\ calls = <<>>
    /\ unit \in {[kind |-> "file", filename |-> "a.csv", lines |-> lines] :
                    lines \in Files(MaxFileCells)}
    /\ LET data == Skip(unit.lines, self.options.skiprows)
       IN  data # <<>> => Distinct(data[1])

\* lines 298-299: df = self.read_csv(filename, skiprows=self.options.get("skiprows"))
ReadCsv ==
    /\ pc = "process_file"
    /\ LET o == read_csv(unit.lines, self.options.skiprows) IN
       IF o.raised # ""
       THEN /\ exc' = o.raised
            /\ pc' = "raised"
            /\ df' = df
       ELSE /\ df' = o.df[1]
            /\ pc' = "call"
            /\ exc' = exc
    /\ UNCHANGED <<calls, ROW_VALIDATORS, self, report, df2, ci, vi, vj, result, unit>>

\* line 301: return report.with_filename(filename)
ReturnWithFilename ==
    /\ pc = "done"
    /\ unit.kind = "file"
    /\ result' = with_filename(result, unit.filename)
    /\ pc' = "returned"
    /\ UNCHANGED <<calls, ROW_VALIDATORS, self, df, report, df2, ci, vi, vj, exc, unit>>

SpecFile == InitFile /\ [][ReadCsv \/ Next \/ ReturnWithFilename]_vars

\* C19: process_file never raises, whatever the file holds, and the report
\* it returns has status ACCEPTED or REJECTED and carries the filename.
C19_Original ==
    unit.kind = "file" =>
        /\ pc # "raised"
        /\ pc = "returned" =>
              /\ result.status \in {ACCEPTED, REJECTED}
              /\ result.filename = unit.filename

\* process_file raises exactly when no line is left after skiprows, and
\* returns a complete report for every other file
RaisesOnlyWithoutLines ==
    unit.kind = "file" =>
        /\ pc = "raised" => Skip(unit.lines, self.options.skiprows) = <<>>
        /\ (Skip(unit.lines, self.options.skiprows) = <<>> /\ pc # "process_file") =>
              pc = "raised"
        /\ pc = "returned" =>
              /\ result.status \in {ACCEPTED, REJECTED}
              /\ result.filename = unit.filename
              /\ result.total_rows = Len(Skip(unit.lines, self.options.skiprows)) - 1

(***************************************************************************)
(* Registration at startup, then process_data.  unit.log lists the         *)
(* registrations made, each with the key it was stored under.              *)
(***************************************************************************)
MaxRegistrations == 2   \* at most this many functions are registered

\* two functions named check, one of them accepting every row, and one named audit
Funcs == {Func("check", "any"), Func("check", "accept"), Func("audit", "accept")}

RegistryTables ==
    {t \in Tables : t.columns \in {<<"A">>, <<"A", "X">>} /\ Len(t.index) \in 1..2}

RegistryOptions ==
    [ignore_additional_columns : {FALSE},
     repeat_last_column : BOOLEAN,
     on_error : {"None"},
     validators : {<<"check">>, <<"audit", "check">>}]

InitRegistry ==
    /\ ROW_VALIDATORS = <<>>
    /\ self \in {FileFormat(<<KeyColumn("a", "A")>>, options) : options \in RegistryOptions}
    /\ df \in RegistryTables
    /\ report = NoReport
    /\ df2 = <<>>
    /\ pc = "startup"
    /\ ci = 1
    /\ vi = 1
    /\ vj = 1
    /\ exc = ""
    /\ result = NoReport
    /\ calls = <<>>
    /\ unit = [kind |-> "registry", log |-> <<>>]

\* @row_validator(name) def func(index, row, report): ...
Register ==
    /\ pc = "startup"
    /\ Len(unit.log) < MaxRegistrations
    /\ \E name \in {<<>>, <<"check">>}, func \in Funcs :
          /\ ROW_VALIDATORS' = row_validator(ROW_VALIDATORS, name, func)
          /\ unit' = [unit EXCEPT !.log =
                         Append(@, [key |-> IF name = <<>> THEN func.name ELSE name[1],
                                    func |-> func])]
    /\ UNCHANGED <<calls, self, df, report, df2, pc, ci, vi, vj, exc, result>>

\* fileformat.process_data(df)
StartProcessing ==
    /\ pc = "startup"
    /\ pc' = "call"
    /\ UNCHANGED <<calls, ROW_VALIDATORS, self, df, report, df2, ci, vi, vj, exc, result, unit>>

SpecRegistry == InitRegistry /\ [][Register \/ StartProcessing \/ Next]_vars

\* the registrations made under a key, in order
RegistrationsOf(key) ==
    SelectSeq(unit.log, LAMBDA e : e.key = key)

\* C20: a name resolves, in every call made during processing, to the first
\* function registered under it; a later registration under the same name
\* changes nothing.
C20_Original ==
    unit.kind = "registry" =>
        \A m \in 1..Len(calls) :
            calls[m].vfunc = RegistrationsOf(calls[m].validator)[1].func

\* a name resolves to the function registered under it last, and the registry
\* does not change once processing has started
LastRegistrationWins ==
    unit.kind = "registry" =>
        /\ DOMAIN ROW_VALIDATORS = {unit.log[k].key : k \in 1..Len(unit.log)}
        /\ \A m \in 1..Len(calls) :
              LET rs == RegistrationsOf(calls[m].validator)
              IN  calls[m].vfunc = rs[Len(rs)].func

(***************************************************************************)
(* process_data run a second time, on the cleaned table of a first run     *)
(* that was ACCEPTED without an error.  The label of every column of the   *)
(* formats is its name.  A cleaned table that holds the lists of           *)
(* process_repeat_columns is not run again, nor is one whose format names  *)
(* the validator check, which may find anything in a row.                  *)
(***************************************************************************)
SlashDate == <<"D", "D", "/", "M", "M", "/", "Y", "Y", "Y", "Y">>
IsoDate == <<"Y", "Y", "Y", "Y", "-", "M", "M", "-", "D", "D">>

\* a required DATE column read with the given dateformat
DateColumn(name, dateformat) ==
    [ColumnFormat(name, name, Datatype_DATE, TRUE, None, <<>>, FALSE, <<>>, <<>>)
        EXCEPT !.dateformat = <<dateformat>>]

RerunSchemas ==
    { <<KeyColumn("a", "a")>>,
      <<ChoiceColumn("a", "a")>>,
      <<DateColumn("a", SlashDate)>>,
      <<DateColumn("a", IsoDate)>>,
      <<KeyColumn("a", "a"), DateColumn("b", SlashDate)>> }

RerunCells ==
    {NaN, Str(<<"1">>),
     Str(<<"1", "0", "/", "0", "2", "/", "2", "0", "2", "0">>),
     Str(<<"2", "0", "2", "0", "-", "0", "2", "-", "1", "0">>)}

RerunTables ==
    UNION {UNION {{DataFrame(RangeIndex(n), cols, data) :
                        data \in [1..Len(cols) -> [1..n -> RerunCells]]} :
                  n \in {m \in 0..MaxCells : m * Len(cols) <= MaxCells}} :
           cols \in {<<"a">>, <<"a", "b">>}}

RerunOptions ==
    [ignore_additional_columns : {FALSE},
     repeat_last_column : BOOLEAN,
     on_error : {"None"},
     validators : {<<>>, <<"audit">>, <<"check">>}]

InitRerun ==
    /\ ROW_VALIDATORS = Registered
    /\ self \in {FileFormat(columns, options) : columns \in RerunSchemas, options \in RerunOptions}
    /\ df \in RerunTables
    /\ report = NoReport
    /\ df2 = <<>>
    /\ pc = "call"
    /\ ci = 1
    /\ vi = 1
    /\ vj = 1
    /\ exc = ""
    /\ result = NoReport
    /\ calls = <<>>
    /\ unit = Idle

\* report2 = fileformat.process_data(report.df), report being ACCEPTED with no error
Rerun ==
    /\ pc = "done"
    /\ unit.kind = "idle"
    /\ result.status = ACCEPTED
    /\ result.errors = <<>>
    /\ result.df # <<>>
    /\ ~self.options.repeat_last_column
    /\ self.options.validators # <<"check">>
    /\ unit' = [kind |-> "rerun", first |-> result]
    /\ df' = result.df[1]
    /\ report' = NoReport
    /\ df2' = <<>>
    /\ pc' = "call"
    /\ ci' = 1
    /\ vi' = 1
    /\ vj' = 1
    /\ exc' = ""
    /\ result' = NoReport
    /\ calls' = <<>>
    /\ UNCHANGED <<ROW_VALIDATORS, self>>

SpecRerun == InitRerun /\ [][Next \/ Rerun]_vars

SecondRunDone == unit.kind = "rerun" /\ pc = "done"

Unchanged ==
    /\ result.errors = <<>>
    /\ result.status = ACCEPTED
    /\ result.df # <<>>
    /\ result.df[1].data = unit.first.df[1].data

HasColumnOf(datatype) ==
    \E k \in 1..Len(self.columns) : self.columns[k].datatype = datatype

\* a DATE column read with a dateformat other than the ISO one, and a row
SlashDateRead ==
    /\ \E k \in 1..Len(self.columns) : self.columns[k].dateformat = <<SlashDate>>
    /\ Len(unit.first.df[1].index) > 0

MaxListeners == 2     \* a signal has at most this many listeners

SignalNames == {"foo", "bar"}

Listeners == {Func("f", "return"), Func("g", "return"), Func("h", "raise")}

\* the arguments of a send: args and kwargs (the set of its items)
SendArguments == [args : {<<42>>, <<1, 2>>}, kwargs : {{}, {<<"x", 1>>}}]

\* Signal(name)
Signal(name) == [name |-> name, listeners |-> <<>>]

\* Signal.connect with a listener connected only once
connect_once(sig, f) ==
    [signal |-> IF \E k \in 1..Len(sig.listeners) : sig.listeners[k] = f THEN sig
                ELSE [sig EXCEPT !.listeners = Append(@, f)],
     returned |-> f]

\* Signal.connect(f): the signal afterwards and the value returned
connect(sig, f) == [signal |-> [sig EXCEPT !.listeners = Append(@, f)], returned |-> f]

\* for f in self.listeners: f(args, kwargs), from listener k on
RECURSIVE SendLoop(_, _, _, _)
SendLoop(listeners, k, arguments, called) ==
    IF k > Len(listeners) THEN [calls |-> called, raised |-> ""]
    ELSE LET call == [f |-> listeners[k], args |-> arguments.args, kwargs |-> arguments.kwargs]
         IN  IF listeners[k].body = "raise"
             THEN [calls |-> Append(called, call), raised |-> "listener failed"]
             ELSE SendLoop(listeners, k + 1, arguments, Append(called, call))

\* Signal.send(args, kwargs)
send(sig, arguments) == SendLoop(sig.listeners, 1, arguments, <<>>)

InitSignal ==
    /\ ROW_VALIDATORS = <<>>
    /\ self = FileFormat(<<>>, <<>>)
    /\ df = <<>>
    /\ report = NoReport
    /\ df2 = <<>>
    /\ pc = "unit"
    /\ ci = 1
    /\ vi = 1
    /\ vj = 1
    /\ exc = ""
    /\ result = NoReport
    /\ calls = <<>>
    /\ unit = [kind |-> "signal",
               signals |-> [s \in SignalNames |-> Signal(s)],
               last |-> [op |-> "Signal"]]

SignalFrame ==
    UNCHANGED <<calls, ROW_VALIDATORS, self, df, report, df2, pc, ci, vi, vj, exc, result>>

\* signal.connect(f)
Connect ==
    /\ unit.kind = "signal"
    /\ \E s \in SignalNames, f \in Listeners :
          /\ Len(unit.signals[s].listeners) < MaxListeners
          /\ LET o == connect(unit.signals[s], f) IN
             unit' = [unit EXCEPT !.signals[s] = o.signal,
                                  !.last = [op |-> "connect", signal |-> s, f |-> f,
                                            before |-> unit.signals[s].listeners,
                                            returned |-> o.returned]]
    /\ SignalFrame

\* signal.send(args, kwargs)
Send ==
    /\ unit.kind = "signal"
    /\ \E s \in SignalNames, arguments \in SendArguments :
          LET o == send(unit.signals[s], arguments) IN
          unit' = [unit EXCEPT !.last = [op |-> "send", signal |-> s, arguments |-> arguments,
                                         calls |-> o.calls, raised |-> o.raised]]
    /\ SignalFrame

SpecSignal == InitSignal /\ [][Connect \/ Send]_vars

IsSend == unit.kind = "signal" /\ unit.last.op = "send"

\* one call per connected listener, in the order of connection
CallPerListener ==
    LET listeners == unit.signals[unit.last.signal].listeners
    IN  [k \in 1..Len(listeners) |->
            [f |-> listeners[k], args |-> unit.last.arguments.args,
             kwargs |-> unit.last.arguments.kwargs]]

ConnectReturnsFunction ==
    (unit.kind = "signal" /\ unit.last.op = "connect") =>
        /\ unit.last.returned = unit.last.f
        /\ unit.signals[unit.last.signal].listeners = Append(unit.last.before, unit.last.f)

HasCode(errors, code) == \E k \in 1..Len(errors) : errors[k].error_code = code

SkipsAdditionalColumns ==
    self.options.repeat_last_column \/ self.options.ignore_additional_columns

UnexpectedLabels ==
    {df.columns[k] : k \in 1..Len(df.columns)}
        \ {self.columns[k].label : k \in 1..Len(self.columns)}

\* C23: with repeat_last_column set, or with ignore_additional_columns set, no
\* found_unexpected_columms error is ever in the report of the run or in the
\* report returned, whatever labels the raw table has.
C23_NoUnexpectedColumnsError ==
    (pc # "call" /\ SkipsAdditionalColumns) =>
        /\ ~HasCode(report.errors, "found_unexpected_columms")
        /\ Done => ~HasCode(result.errors, "found_unexpected_columms")

\* a finished run with repeat_last_column set and ignore_additional_columns not
\* set, on a raw table with a label outside the expected set, went past the
\* structural check
C23_Witness ==
    /\ Done
    /\ self.options.repeat_last_column
    /\ ~self.options.ignore_additional_columns
    /\ UnexpectedLabels # {}
    /\ ~HasStructuralError(result.errors)

(***************************************************************************)
(* The DefaultsProcessor applied to one column, next to the processor      *)
(* chain of every ColumnFormat.                                            *)
(***************************************************************************)
DefaultsProcessors ==
    {Processor("DefaultsProcessor",
               ColumnFormat("test", "test", Datatype_STRING, FALSE, default, <<>>, FALSE, <<>>,
                            missing_values)) :
        default \in {None, Str(<<>>), Str(<<"1">>)},
        missing_values \in {<<>>, <<{}>>, <<{Str(<<"F">>)}>>, <<{Str(<<"F">>), Str(<<"1">>)}>>}}

InitDefaults ==
    /\ ROW_VALIDATORS = <<>>
    /\ self = FileFormat(<<>>, <<>>)
    /\ df = <<>>
    /\ report = NoReport
    /\ df2 = <<>>
    /\ pc = "unit"
    /\ ci = 1
    /\ vi = 1
    /\ vj = 1
    /\ exc = ""
    /\ result = NoReport
    /\ calls = <<>>
    /\ unit \in {[kind |-> "processor", p |-> p, column |-> column, errors |-> errors,
                   out |-> <<>>] :
                    p \in DefaultsProcessors, column \in UnitColumns, errors \in EarlierErrors}

SpecDefaults == (InitDefaults \/ InitChain) /\ [][ApplyProcessor \/ GetProcessors]_vars

DefaultsApplied ==
    unit.kind = "processor" /\ unit.p.kind = "DefaultsProcessor" /\ unit.out # <<>>

\* the cells the processor takes for missing
TakenForMissing(p) ==
    {Str(<<>>), None, NaN} \cup (IF p.missing_values = <<>> THEN {} ELSE p.missing_values[1])

KindsOf(processors) == [k \in 1..Len(processors) |-> processors[k].kind]

\* C24: the DefaultsProcessor hands back a column with the same name and index in
\* which every cell that is "", None, NaN or an entry of missing_values holds the
\* default and every other cell is as it was; it adds no error and raises
\* nothing.  The chain of a required column holds no DefaultsProcessor; the chain
\* of any other column holds exactly one, in the place of the RequiredProcessor.
C24_DefaultsReplaceMissing ==
    /\ DefaultsApplied =>
          LET o == unit.out[1] IN
          /\ o.raised = ""
          /\ o.errors = unit.errors
          /\ o.column.name = unit.column.name
          /\ o.column.index = unit.column.index
          /\ Len(o.column.values) = Len(unit.column.values)
          /\ \A k \in 1..Len(unit.column.values) :
                o.column.values[k] =
                    IF unit.column.values[k] \in TakenForMissing(unit.p)
                    THEN unit.p.default ELSE unit.column.values[k]
    /\ (unit.kind = "chain" /\ unit.out # <<>>) =>
          LET kinds == KindsOf(unit.out[1])
              at(kind) == {k \in 1..Len(kinds) : kinds[k] = kind}
          IN  /\ unit.c.required => at("DefaultsProcessor") = {}
              /\ ~unit.c.required =>
                    /\ at("DefaultsProcessor") = {Len(kinds) - 1}
                    /\ at("RequiredProcessor") = {}

\* a column with a NaN cell, an entry of missing_values and another text went
\* through a DefaultsProcessor whose default is a text
C24_Witness ==
    /\ DefaultsApplied
    /\ unit.p.default = Str(<<"1">>)
    /\ unit.p.missing_values = <<{Str(<<"F">>)}>>
    /\ unit.column.values = <<NaN, Str(<<"F">>), Str(<<"F", "1">>)>>
    /\ unit.out[1].column.values = <<Str(<<"1">>), Str(<<"1">>), Str(<<"F", "1">>)>>

\* the labels of the declared columns other than the last
NonLastLabels ==
    {self.columns[k].label : k \in 1..(Len(self.columns) - 1)}

\* the raw columns no declared column other than the last is matched to
BeyondDeclared == SelectSeq(df.columns, LAMBDA label : label \notin NonLastLabels)

\* C25: with repeat_last_column set, the raw columns handed to the last declared
\* column's processor chain are the raw columns that are not matched by label
\* to a declared column other than the last, each once, whatever the order of the
\* raw columns; a raw column matched to such a declared column is not among them.
C25_Original ==
    (pc = "repeat" /\ unit.kind = "idle") =>
        /\ repeat_names(self, df) = BeyondDeclared
        /\ \A k \in 1..Len(repeat_names(self, df)) :
              repeat_names(self, df)[k] \notin NonLastLabels

(***************************************************************************)
(* Two calls of process_data whose steps interleave.  The variables of the *)
(* process_data machine hold the locals of the call that is running;       *)
(* unit.saved holds those of the call that is waiting.  The errors list of *)
(* a report is an object of unit.heap: when a call is suspended what it    *)
(* appended is written to its list, and when it resumes it reads the list  *)
(* as it then is.                                                          *)
(***************************************************************************)
Locals(f, d, r, d2, at, c, i, j, e, res, cs) ==
    [self |-> f, df |-> d, report |-> r, df2 |-> d2, pc |-> at, ci |-> c, vi |-> i, vj |-> j,
     exc |-> e, result |-> res, calls |-> cs]

ConcurrentFormats ==
    {FileFormat(<<KeyColumn("a", "A")>>, options) :
        options \in {[ignore_additional_columns |-> FALSE, repeat_last_column |-> FALSE,
                      on_error |-> "reject-file", validators |-> <<>>],
                     [ignore_additional_columns |-> FALSE, repeat_last_column |-> TRUE,
                      on_error |-> "None", validators |-> <<"audit">>]}}
    \cup {FileFormat(<<BadPatternColumn("a", "A")>>,
                     [ignore_additional_columns |-> FALSE, repeat_last_column |-> FALSE,
                      on_error |-> "None", validators |-> <<>>])}

ConcurrentTables ==
    {t \in Tables : \/ t.columns = <<"A">> /\ Len(t.index) \in 1..2
                    \/ t.columns = <<"A", "X">> /\ Len(t.index) = 1}

InitConcurrent ==
    /\ ROW_VALIDATORS = Registered
    /\ self \in ConcurrentFormats
    /\ df \in ConcurrentTables
    /\ report = NoReport
    /\ df2 = <<>>
    /\ pc = "call"
    /\ ci = 1
    /\ vi = 1
    /\ vj = 1
    /\ exc = ""
    /\ result = NoReport
    /\ calls = <<>>
    /\ unit \in {[kind |-> "runs", active |-> 1,
                   saved |-> Locals(f, d, NoReport, <<>>, "call", 1, 1, 1, "", NoReport, <<>>),
                   heap |-> Heap(<<>>, <<>>, <<>>),
                   object |-> <<0, 0>>] :
                    f \in ConcurrentFormats, d \in ConcurrentTables}

\* the report read through its errors list as the heap holds it
ReadErrors(h, object, r) ==
    IF r = NoReport \/ object = 0 THEN r ELSE [r EXCEPT !.errors = ErrorsOf(h, object)]

\* the running call is suspended and the waiting one goes on
Switch ==
    /\ unit.kind = "runs"
    /\ LET me == unit.active
           other == 3 - unit.active
           created == report # NoReport /\ unit.object[me] = 0
           h1 == IF created THEN NewReportObject(unit.heap, report.total_rows) ELSE unit.heap
           mine == IF created THEN Len(h1.objects) ELSE unit.object[me]
           h2 == IF mine = 0 THEN h1
                 ELSE [h1 EXCEPT !.lists[h1.objects[mine].errors] =
                          IF created THEN @ \o report.errors ELSE report.errors]
           s == unit.saved
       IN  /\ unit' = [unit EXCEPT !.active = other,
                                   !.saved = Locals(self, df, report, df2, pc, ci, vi, vj, exc,
                                                    result, calls),
                                   !.heap = h2,
                                   !.object[me] = mine]
           /\ self' = s.self
           /\ df' = s.df
           /\ report' = ReadErrors(h2, unit.object[other], s.report)
           /\ df2' = s.df2
           /\ pc' = s.pc
           /\ ci' = s.ci
           /\ vi' = s.vi
           /\ vj' = s.vj
           /\ exc' = s.exc
           /\ result' = ReadErrors(h2, unit.object[other], s.result)
           /\ calls' = s.calls
    /\ UNCHANGED ROW_VALIDATORS

SpecConcurrent == InitConcurrent /\ [][Next \/ Switch]_vars

\* the declared columns from column k on, as the loop of lines 373-374 runs them
RECURSIVE ColumnsLoop(_, _, _, _, _)
ColumnsLoop(f, d, k, d2, errors) ==
    IF k > Len(column_formats(f)) THEN [d2 |-> d2, errors |-> errors, raised |-> ""]
    ELSE LET c == column_formats(f)[k]
             o == ColumnFormat_process(c, GetColumn(d, c.label), errors)
         IN  IF o.raised # "" THEN [d2 |-> d2, errors |-> o.errors, raised |-> o.raised]
             ELSE ColumnsLoop(f, d, k + 1, SetColumn(d2, c.name, o.column.values), o.errors)

\* lines 376-379 after the declared columns gave a
RepeatStep(f, d, a) ==
    IF ~HasRepeatFormat(f) \/ a.raised # "" THEN a
    ELSE LET names == repeat_names(f, d)
             o == process_repeat_columns(repeat_format(f),
                                         [k \in 1..Len(names) |-> GetColumn(d, names[k])],
                                         a.errors)
         IN  IF o.raised # "" THEN [d2 |-> a.d2, errors |-> o.errors, raised |-> o.raised]
             ELSE [d2 |-> SetColumn(a.d2, repeat_format(f).name, AlignSeries(a.d2.index, o.d)),
                   errors |-> o.errors, raised |-> ""]

\* process_data(df) run on its own, for a format whose validators accept every
\* row: the report it returns
process_data(f, d) ==
    LET r == FileFormatReport(Len(d.index))
        structural == StructuralErrors(f, d, r.errors)
        b == RepeatStep(f, d, ColumnsLoop(f, d, 1, DataFrame(d.index, <<>>, <<>>), structural))
    IN  IF structural # <<>>
        THEN with_status([r EXCEPT !.errors = structural], REJECTED)
        ELSE IF b.raised # ""
        THEN with_status([r EXCEPT !.errors = add_file_error(b.errors, "internal_error",
                                                             b.raised)], REJECTED)
        ELSE IF RejectsFile(f, b.errors)
        THEN with_status([r EXCEPT !.errors = b.errors], REJECTED)
        ELSE with_df([r EXCEPT !.errors = b.errors],
                     FilterRows(b.d2, d, rejected_rows(b.errors)))

BothReturned == unit.kind = "runs" /\ pc = "done" /\ unit.saved.pc = "done"

\* the report the waiting call returned, read as it is now
WaitingResult == ReadErrors(unit.heap, unit.object[3 - unit.active], unit.saved.result)

\* C26: when two calls of process_data have returned, however their steps were
\* interleaved, the report of each (errors, status, total_rows, cleaned table) is
\* the report that call returns when it runs on its own, so no error of one call
\* is in the report of the other; the two reports have different errors lists.
C26_RunsDoNotInterfere ==
    BothReturned =>
        /\ result = process_data(self, df)
        /\ WaitingResult = process_data(unit.saved.self, unit.saved.df)
        /\ unit.object[3 - unit.active] # 0
        /\ \A a, b \in 1..Len(unit.heap.objects) :
              a # b => unit.heap.objects[a].errors # unit.heap.objects[b].errors

\* both calls returned after the running one was suspended between two of its
\* steps, one with a ROW error of its own table and the other with no error
C26_Witness ==
    /\ BothReturned
    /\ unit.object = <<1, 2>>
    /\ HasRowError(result.errors)
    /\ WaitingResult.errors = <<>>
    /\ WaitingResult.status = ACCEPTED
    /\ Len(unit.saved.df.index) = 1

HasFileLevelError(errors) == \E k \in 1..Len(errors) : errors[k].error_level = FILE

\* C27: a report returned by process_data that holds a FILE error is REJECTED,
\* also when the FILE error was appended by a row validator and on_error is
\* not "reject-file"; an ACCEPTED report holds ROW errors only.
C27_Original ==
    (Done /\ unit.kind = "idle" /\ HasFileLevelError(result.errors)) => result.status = REJECTED

\* FileFormatReport.rejected_row_count
rejected_row_count(r) ==
    Cardinality({r.errors[k].row_index :
                    k \in {j \in 1..Len(r.errors) : r.errors[j].error_level = ROW}})

Accepted == Done /\ unit.kind = "idle" /\ result.status = ACCEPTED

\* C28: in every report process_data returns with status ACCEPTED, total_rows is
\* the number of rows of the input table, and the cleaned table has total_rows
\* minus rejected_row_count rows: the rows of the input no ROW error refers to,
\* the ROW errors of row validators included.
C28_CleanedRowCount ==
    Accepted =>
        /\ result.total_rows = Len(df.index)
        /\ result.df # <<>>
        /\ Len(result.df[1].index) = result.total_rows - rejected_row_count(result)
        /\ Range(result.df[1].index) = Range(df.index) \ rejected_rows(result.errors)

\* an ACCEPTED report of a three-row table in which a column processor flagged
\* one row and a row validator another
C28_Witness ==
    /\ Accepted
    /\ result.total_rows = 3
    /\ HasCode(result.errors, "row_rule")
    /\ HasCode(result.errors, "invalid_pattern")
    /\ rejected_row_count(result) = 2
    /\ Len(result.df[1].index) = 1

\* the error codes of the column processors
ProcessorCodes ==
    {"duplicate_value", "invalid_pattern", "invalid_value", "missing_value", "invalid-value"}

FormatNames == {self.columns[k].name : k \in 1..Len(self.columns)}

\* the raw cell an error refers to: the cell of the column with that header at
\* the 0-based position row_index
RawCell(e) == df.data[ColumnPos(df.columns, e.column_name)][e.row_index + 1]

MaxObjects == 3        \* the bucket holds at most this many objects at first

Slash == "/"

StorageKeys ==
    { <<"P", "/", "x">>, <<"P", "/", "y", "/", "z">>, <<"P", "2", "/", "x">>,
      <<"P", "f">>, <<"P">>, <<"Q", "/", "x">> }

\* the directories rmdir and move_dir are called on, and the destinations
SourceDirs == { <<"P">>, <<"P", "/", "y">> }
DestDirs == { <<"Q">>, <<"R">> }

StartsWith(key, prefix) ==
    Len(prefix) <= Len(key) /\ SubSeq(key, 1, Len(prefix)) = prefix

\* path.strip('/')
RECURSIVE strip(_)
strip(path) ==
    IF path # <<>> /\ path[1] = Slash THEN strip(Tail(path))
    ELSE IF path # <<>> /\ path[Len(path)] = Slash THEN strip(SubSeq(path, 1, Len(path) - 1))
    ELSE path

\* bucket.objects.filter(Prefix=prefix): the keys of the objects listed
filter(bucket, prefix) == {key \in DOMAIN bucket : StartsWith(key, prefix)}

\* StoragePath.iterdir: the paths listed
iterdir(bucket, path) == {strip(key) : key \in filter(bucket, path \o <<Slash>>)}

\* StoragePath.rmdir: bucket.objects.filter(Prefix=self.path).delete()
rmdir(bucket, path) ==
    [key \in DOMAIN bucket \ filter(bucket, path) |-> bucket[key]]

\* s.replace(old, new, 1)
replace_first(s, old, new) ==
    LET at == {i \in 1..(Len(s) - Len(old) + 1) : SubSeq(s, i, i + Len(old) - 1) = old}
    IN  IF at = {} THEN s
        ELSE LET i == CHOOSE j \in at : \A k \in at : j <= k
             IN  SubSeq(s, 1, i - 1) \o new \o SubSeq(s, i + Len(old), Len(s))

\* dest_path.copy(source_path)
copy(bucket, dest, source) ==
    [key \in DOMAIN bucket \cup {dest} |-> IF key = dest THEN bucket[source] ELSE bucket[key]]

\* StoragePath.copy_dir, the files still to copy being those of the set
RECURSIVE CopyLoop(_, _, _, _)
CopyLoop(bucket, dest, source, files) ==
    IF files = {} THEN bucket
    ELSE LET source_path == CHOOSE f \in files : TRUE
             dest_file == replace_first(source_path, source, dest)
         IN  CopyLoop(copy(bucket, strip(dest_file), source_path), dest, source,
                      files \ {source_path})

copy_dir(bucket, dest, source) == CopyLoop(bucket, dest, source, iterdir(bucket, source))

\* StoragePath.move_dir
move_dir(bucket, dest, source) == rmdir(copy_dir(bucket, dest, source), source)

InitStorage ==
    /\ ROW_VALIDATORS = <<>>
    /\ self = FileFormat(<<>>, <<>>)
    /\ df = <<>>
    /\ report = NoReport
    /\ df2 = <<>>
    /\ pc = "unit"
    /\ ci = 1
    /\ vi = 1
    /\ vj = 1
    /\ exc = ""
    /\ result = NoReport
    /\ calls = <<>>
    /\ unit \in {[kind |-> "storage", bucket |-> [key \in keys |-> key], last |-> [op |-> ""]] :
                    keys \in {s \in SUBSET StorageKeys : Cardinality(s) <= MaxObjects}}

StorageFrame ==
    UNCHANGED <<calls, ROW_VALIDATORS, self, df, report, df2, pc, ci, vi, vj, exc, result>>

\* StoragePath(path).rmdir()
Rmdir ==
    /\ unit.kind = "storage"
    /\ \E path \in SourceDirs :
          unit' = [unit EXCEPT !.bucket = rmdir(@, path),
                               !.last = [op |-> "rmdir", path |-> path, before |-> unit.bucket]]
    /\ StorageFrame

\* StoragePath(dest).copy_dir(StoragePath(source))
CopyDir ==
    /\ unit.kind = "storage"
    /\ \E dest \in DestDirs, source \in SourceDirs :
          unit' = [unit EXCEPT !.bucket = copy_dir(@, dest, source),
                               !.last = [op |-> "copy_dir", path |-> source,
                                         before |-> unit.bucket]]
    /\ StorageFrame

\* StoragePath(dest).move_dir(StoragePath(source))
MoveDir ==
    /\ unit.kind = "storage"
    /\ \E dest \in DestDirs, source \in SourceDirs :
          unit' = [unit EXCEPT !.bucket = move_dir(@, dest, source),
                               !.last = [op |-> "move_dir", path |-> source,
                                         before |-> unit.bucket,
                                         copied |-> iterdir(unit.bucket, source)]]
    /\ StorageFrame

SpecStorage == InitStorage /\ [][Rmdir \/ CopyDir \/ MoveDir]_vars

\* the keys the last call deleted
Deleted == DOMAIN unit.last.before \ DOMAIN unit.bucket

\* C30: rmdir on P, and the deletion of move_dir from P, removes the objects
\* iterdir lists for P, those whose key starts with P and "/", and no other; an
\* object outside that directory, a sibling whose key only begins with the
\* characters of P included, is left as it was; move_dir deletes no object it
\* did not copy first.
C30_Original ==
    (unit.kind = "storage" /\ unit.last.op \in {"rmdir", "move_dir"}) =>
        LET listed == iterdir(unit.last.before, unit.last.path)
        IN  /\ Deleted \subseteq listed
            /\ \A key \in DOMAIN unit.last.before \ listed : key \in DOMAIN unit.bucket
            /\ unit.last.op = "rmdir" =>
                  \A key \in DOMAIN unit.last.before \ listed :
                     unit.bucket[key] = unit.last.before[key]
            /\ unit.last.op = "move_dir" => Deleted \subseteq unit.last.copied

\* rmdir and move_dir delete every object whose key begins with the characters
\* of the path, and copy_dir deletes nothing
DeletesByPrefix ==
    unit.kind = "storage" =>
        /\ unit.last.op \in {"rmdir", "move_dir"} =>
              Deleted = filter(unit.last.before, unit.last.path)
        /\ unit.last.op = "copy_dir" => Deleted = {}

====
